---- MODULE Spec2Model ----
(***************************************************************************)
(* Verification model of ankaflow: the stage scheduler (core/flow.py) and  *)
(* the REST connector (connections/rest).                                  *)
(***************************************************************************)
EXTENDS Integers, Sequences, FiniteSets, TLC

\* ------------------------------------------------------------------------
\* Bounds of the model
\* ------------------------------------------------------------------------
\* rows the top-level source stage may produce
MaxRows == 2
\* rows the first nested stage may produce (input of the inner pipeline)
MaxInnerRows == 1

\* ------------------------------------------------------------------------
\* The stage document: a header, a source, a looping pipeline and a sink;
\* the pipeline nests an appending stage, an inner pipeline and a last stage.
\* ------------------------------------------------------------------------
ON_ERROR_FAIL == "fail"
ON_ERROR_CONTINUE == "continue"
OnErrorValues == {ON_ERROR_FAIL, ON_ERROR_CONTINUE}

\* FlowControl() built without arguments: on_error defaults to fail
DefaultFlowControl == ON_ERROR_FAIL

TopStages == <<"hdr", "src", "loop", "snk">>

Children(s) ==
    IF s = "loop" THEN <<"app", "inner", "post">>
    ELSE IF s = "inner" THEN <<"leaf">>
    ELSE <<>>

StageNames == {"hdr", "src", "loop", "snk", "app", "inner", "post", "leaf"}

Kind(s) ==
    CASE s = "hdr" -> "header"
      [] s \in {"loop", "inner"} -> "pipeline"
      [] s = "snk" -> "sink"
      [] OTHER -> "transform"

Reverse(q) == [i \in 1..Len(q) |-> q[Len(q) + 1 - i]]

\* variant: the steps are not iterated in document order
StagesOfReversed(owner) == Reverse(IF owner = "" THEN TopStages ELSE Children(owner))

\* stage list a flow iterates: the document for the top flow (owner ""),
\* the inline stages of the owning pipeline stage otherwise
StagesOf(owner) == IF owner = "" THEN TopStages ELSE Children(owner)

\* stages whose handler may raise at execution (environment's choice)
MayFail == {"src", "post", "leaf", "snk"}
\* stages whose on_error the document sets freely (the others keep the default)
OnErrorFree == {"src", "loop", "post", "leaf"}

\* stages whose skip_if the document sets to a template over loop_control
SkipIfFree == {"loop", "inner"}
\* stages whose log_level the document may set, and the level each one sets
LevelFree == {"hdr", "src"}
LevelSet(s) == IF s = "hdr" THEN "DEBUG" ELSE "WARNING"
\* the documents run: skip_if templates or log levels, each in every combination
Documents ==
    {d \in [skip : [SkipIfFree -> {"none", "lcsafe"}], level : [LevelFree -> BOOLEAN]] :
        (\A s \in SkipIfFree : d.skip[s] = "none") \/ (\A s \in LevelFree : ~d.level[s])}

\* first row id of the table a stage produces
RowBase(s) == IF s = "src" THEN 0 ELSE 10

\* row ids for which the loop-dependent skip_if template renders truthy
SkipRows == {2}

VARIABLES
    cfg,        \* what the caller passed: on_error per stage, FlowControl, row counts
    defs,       \* stack of stage definitions: the document, then one deep copy per open loop iteration
    stack,      \* call stack: AsyncFlow.run frames and PipelineStageHandler loop frames
    variables,  \* the shared Variables map: loop_control and the list the nested stage appends to
    tables,     \* relations of the SQL runtime, by stage name
    outcome,    \* how the top-level run ended
    trace,      \* observed begin / end of stages and flow runs
    last,       \* the step just taken
    log,        \* the logger the run was given: its level and the failures it was told of
    \* -- REST client (connections/rest/server.py, browser.py)
    req,        \* the Request being fetched and the transport the platform selects
    client,     \* RestClient attributes that outlive a fetch: wait, retry
    calls,      \* fetch() activations: the retry loop and, in the server client, its recursion
    hist,       \* per fetch: requests sent, responses seen, sleeps taken, how it ended
    \* -- REST response handling (connections/rest/rest.py)
    apicfg,     \* the response handler configured and what the remote API holds
    handler,    \* state of the PaginationHandler / StatePollingHandler, and of the loop driving it
    resp,       \* the response most recently returned by the client
    net,        \* page parameter of every request issued, in order
    mat,        \* size of every batch handed to the materializer, in order
    \* -- row-database streaming tap (connections/clickhouse.py)
    tap,        \* one Clickhouse.tap call: the stream, the row buffer, the stage table, the transaction
    \* -- LLM query generation tap (connections/llm/sqlgen.py)
    gen,        \* one SQLGen connection: retry counter, model calls, executions, Variables entries, the view
    \* -- warehouse sink (connections/bigquery.py)
    bq,         \* one BigQuery.sink call: the modes, the loads and dataset creations, what was raised
    \* -- SQL runtime adapter (internal/server.py, internal/browser.py)
    ddb,        \* one DDB and its secrets: the platform, the secrets held, the inject_secrets calls made
    rd,         \* one DDB and the table read_* loads: the platform, the table, the calls made
    \* -- temporary views and tables of the connectors
    tmpv,       \* the SQL runtime's temporary objects, and the connector operation that last ran
    \* -- clients, sink strategies and locators of the connectors
    ch,         \* one Clickhouse connection: the operations called, the clients opened and closed, the inserts
    ra,         \* one RestApi: its HTTP client across fetch calls
    dsink,      \* one Deltatable.sink call: fields, rows, the strategy and what was written
    loc         \* one Locator.locate call: bucket, data_prefix, name and the path returned

flowVars == <<cfg, defs, stack, variables, tables, outcome, trace, last, log>>
restVars == <<req, client, calls, hist>>
apiVars == <<apicfg, handler, resp, net, mat>>
storeVars == <<tap, gen, bq, ddb, rd, tmpv>>
ioVars == <<ch, ra, dsink, loc>>
connVars == <<storeVars, ioVars>>
vars == <<flowVars, restVars, apiVars, connVars>>

\* Variables without a loop_control entry
NoRow == <<>>

\* ------------------------------------------------------------------------
\* A component that takes no part in a run stays in its idle state
\* ------------------------------------------------------------------------
NoResponse == [status |-> 0, records |-> 0, total |-> 0, ready |-> FALSE, url |-> FALSE]

RestIdle ==
    /\ req = [transport |-> "", max_retries |-> 0, initial_backoff |-> 0,
              error_status_codes |-> {}]
    /\ client = [wait |-> 0, retry |-> 0]
    /\ calls = <<>>
    /\ hist = [sent |-> 0, seen |-> <<>>, waits |-> <<>>, result |-> "idle",
               fetches |-> 0, total |-> 0]

ApiIdle ==
    /\ apicfg = [kind |-> "", page_size |-> 0, total_records |-> FALSE, held |-> 0,
                 notready |-> 0, reported |-> 0, throttle |-> 0,
                 ready_status |-> FALSE, has_url |-> FALSE]
    /\ handler = [phase |-> "idle", current_page |-> 0, received |-> 0, polls |-> 0,
                  wait |-> 0, error |-> "", events |-> <<>>, tmpfile |-> FALSE]
    /\ resp = NoResponse
    /\ net = <<>>
    /\ mat = <<>>

FlowIdle ==
    /\ cfg = [on_error |-> <<>>, flow_on_error |-> "", nrows |-> <<>>,
              skip_if |-> <<>>, log_level |-> <<>>]
    /\ defs = <<>>
    /\ stack = <<>>
    /\ variables = [loop_control |-> NoRow, ids |-> <<>>]
    /\ tables = <<>>
    /\ outcome = [kind |-> "idle", stage |-> ""]
    /\ trace = <<>>
    /\ last = [act |-> "idle", stage |-> "", n |-> 0, depth |-> 0, fc |-> "", loop |-> ""]
    /\ log = [level |-> "", lines |-> {}]

\* how a connector call ended: the exception type the caller sees and the
\* exception it was built from
NoError == [type |-> "", arg |-> ""]

\* a stage table of the SQL runtime: whether it exists and how many rows it holds
NoStageTable == [exists |-> FALSE, rows |-> 0]

\* every connector but those in S is in the state of one never used
ConnIdleExcept(S) ==
    /\ IF "tap" \in S THEN TRUE
       ELSE tap = [n |-> 0, blocksize |-> 0, pc |-> "idle", read |-> 0, columns |-> FALSE,
                   rows |-> 0, df |-> 0, ret |-> "", table |-> NoStageTable,
                   snapshot |-> NoStageTable, txn |-> "none", chdf_chunk |-> FALSE,
                   flushes |-> <<>>, pending |-> "", result |-> "idle",
                   stage |-> "idle", raised |-> ""]
    /\ IF "gen" \in S THEN TRUE
       ELSE gen = [pc |-> "idle", retries_left |-> 0, calls |-> <<>>, responses |-> <<>>,
                   execs |-> <<>>, error |-> <<>>,
                   vars |-> [user |-> "unset", success |-> FALSE, fail |-> <<"unset">>],
                   view |-> 0, result |-> "idle"]
    /\ IF "bq" \in S THEN TRUE
       ELSE bq = [data_mode |-> "", schema_mode |-> "", region |-> "", rows |-> 0,
                  pc |-> "idle", depth |-> 0, loads |-> <<>>, creates |-> <<>>,
                  raised |-> "", result |-> NoError]
    /\ IF "ddb" \in S THEN TRUE
       ELSE ddb = [platform |-> "", secrets |-> {}, latest |-> <<>>, injects |-> 0]
    /\ IF "rd" \in S THEN TRUE
       ELSE rd = [platform |-> "", table |-> NoStageTable, reads |-> <<>>]
    /\ IF "tmpv" \in S THEN TRUE
       ELSE tmpv = [views |-> {}, op |-> "", raised |-> FALSE, ops |-> 0]
    /\ IF "ch" \in S THEN TRUE
       ELSE ch = [pc |-> "idle", blocksize |-> 0, _blocksize |-> 0, op |-> "", rows |-> 0,
                  left |-> 0, ch |-> FALSE, opened |-> 0, closed |-> 0, inserts |-> <<>>,
                  result |-> "", calls |-> 0]
    /\ IF "ra" \in S THEN TRUE
       ELSE ra = [pc |-> "idle", platform |-> "", client |-> "none", connects |-> 0,
                  closes |-> 0, result |-> "", calls |-> 0]
    /\ IF "dsink" \in S THEN TRUE
       ELSE dsink = [pc |-> "idle", fields |-> "", is_delta |-> FALSE, rows |-> 0,
                     strategy |-> "", created |-> 0, written |-> <<>>, result |-> "",
                     calls |-> 0]
    /\ IF "loc" \in S THEN TRUE
       ELSE loc = [pc |-> "idle", bucket |-> <<>>, prefix |-> <<>>, name |-> <<>>,
                   path |-> <<>>, raised |-> ""]

\* ------------------------------------------------------------------------
\* Rendering (StageBlock.prepare, Renderer, string_to_bool)
\* ------------------------------------------------------------------------
\* Python truthiness of a skip_if value: None and False are falsy
Truthy(v) == v \notin {"none", "F"}

\* the template raises when it subscripts a missing loop_control
RenderRaises(v, vs) == v = "lcraw" /\ vs.loop_control = NoRow

\* string_to_bool(render(skip_if)) for a truthy skip_if
RenderSkipIf(v, vs) ==
    CASE v = "T" -> "T"
      [] v \in {"lcsafe", "lcraw"} ->
            IF vs.loop_control # NoRow /\ vs.loop_control[1] \in SkipRows
            THEN "T" ELSE "F"
      [] OTHER -> "T"

\* a query template that appends loop_control.id through API.setvariable
QueryRaises(q, vs) == q = "append" /\ vs.loop_control = NoRow

RenderQueryVars(q, vs) ==
    IF q = "append"
    THEN [vs EXCEPT !.ids = Append(@, vs.loop_control[1])]
    ELSE vs

RenderQuery(q) == IF q = "append" THEN "text" ELSE q

\* StageBlock.prepare(src): renders skip_if, then query, assigning in place.
\* Returns the definition as left behind, the Variables, and whether it raised.
Prepare(d, vs) ==
    IF Truthy(d.skip_if) /\ RenderRaises(d.skip_if, vs)
    THEN [def |-> d, vs |-> vs, raised |-> TRUE]
    ELSE LET d1 == IF Truthy(d.skip_if)
                   THEN [d EXCEPT !.skip_if = RenderSkipIf(d.skip_if, vs)]
                   ELSE d
         IN  IF d1.query # "none" /\ QueryRaises(d1.query, vs)
             THEN [def |-> d1, vs |-> vs, raised |-> TRUE]
             ELSE [def |-> [d1 EXCEPT !.query = IF @ = "none" THEN @ ELSE RenderQuery(@)],
                   vs |-> IF d1.query = "none" THEN vs ELSE RenderQueryVars(d1.query, vs),
                   raised |-> FALSE]

\* ------------------------------------------------------------------------
\* Frames
\* ------------------------------------------------------------------------
NoErr == [type |-> "", stage |-> ""]

FlowFrame(owner, fc) ==
    [t |-> "flow", owner |-> owner, idx |-> 1, lastname |-> "", fc |-> fc,
     phase |-> "step", items |-> <<>>, err |-> NoErr]

LoopFrame(owner, items) ==
    [t |-> "loop", owner |-> owner, idx |-> 0, lastname |-> "", fc |-> "",
     phase |-> "iter", items |-> items, err |-> NoErr]

Depth == Len(stack)
Top == stack[Depth]
Env == defs[Len(defs)]
CurStage == StagesOf(Top.owner)[Top.idx]

Pop(s) == SubSeq(s, 1, Len(s) - 1)
SetTop(s, f) == [s EXCEPT ![Len(s)] = f]

\* the step just taken: what was done, to which stage, by the frame at which
\* depth; n counts the loop iterations started; loop names the pipeline
\* handler that handed control back in this step
Did(act, stage, n) ==
    [act |-> act, stage |-> stage, n |-> n, depth |-> Depth, fc |-> Top.fc, loop |-> ""]

HandedBack(act, stage, n, loop) == [Did(act, stage, n) EXCEPT !.loop = loop]

\* rows a table-producing stage creates
RowsOf(s) == [i \in 1..cfg.nrows[s] |-> RowBase(s) + i]

NoTable == [exists |-> FALSE, rows |-> <<>>]

\* ------------------------------------------------------------------------
\* Initial state: AsyncFlow(defs, ctx, conn, variables = {}, flow_control)
\* ------------------------------------------------------------------------
InitDefs(skip) ==
    [s \in StageNames |->
        [skip_if |-> skip[s],
         query   |-> CASE s = "app" -> "append"
                       [] Kind(s) \in {"pipeline", "header", "sink"} -> "none"
                       [] OTHER -> "text"]]

Init ==
    /\ \E oe \in [OnErrorFree -> OnErrorValues], fc \in OnErrorValues,
          k \in 0..MaxRows, ki \in 0..MaxInnerRows,
          doc \in Documents :
          cfg = [on_error |-> [s \in StageNames |->
                                  IF s \in OnErrorFree THEN oe[s] ELSE ON_ERROR_FAIL],
                 flow_on_error |-> fc,
                 nrows |-> [s \in StageNames |->
                               IF s = "src" THEN k ELSE IF s = "app" THEN ki ELSE 1],
                 skip_if |-> [s \in StageNames |->
                                 IF s \in SkipIfFree THEN doc.skip[s] ELSE "none"],
                 log_level |-> [s \in StageNames |->
                                   IF s \in LevelFree /\ doc.level[s] THEN LevelSet(s) ELSE ""]]
    /\ defs = <<InitDefs(cfg.skip_if)>>
    /\ log = [level |-> "INFO", lines |-> {}]
    /\ stack = <<FlowFrame("", cfg.flow_on_error)>>
    /\ variables = [loop_control |-> NoRow, ids |-> <<>>]
    /\ tables = [s \in StageNames |-> NoTable]
    /\ outcome = [kind |-> "running", stage |-> ""]
    /\ trace = << <<"F", 1, "">> >>
    /\ last = [act |-> "init", stage |-> "", n |-> 0, depth |-> 0, fc |-> "", loop |-> ""]
    /\ RestIdle
    /\ ApiIdle
    /\ ConnIdleExcept({})

\* ------------------------------------------------------------------------
\* AsyncFlow.run: one pass of the for loop up to the handler's execute()
\* ------------------------------------------------------------------------
\* the for loop takes the next step of the list
NextIdx(i) == i + 1

\* variant: lastname is whatever the stage returned, None too
HandoffReturned(f, returned) == returned

\* self.lastname = await stage.do() or self.lastname
Handoff(f, returned) == IF returned # "" THEN returned ELSE f.lastname

Advance(f, returned) ==
    [f EXCEPT !.idx = NextIdx(@), !.phase = "step",
              !.lastname = Handoff(f, returned), !.err = NoErr]

Caught(f, type, stage) ==
    [f EXCEPT !.phase = "except", !.err = [type |-> type, stage |-> stage]]

\* if step.log_level: self.log.setLevel(step.log_level.value)
SetLevel(l, level) == IF level # "" THEN [l EXCEPT !.level = level] ELSE l

FlowStep ==
    /\ stack # <<>>
    /\ Top.t = "flow" /\ Top.phase = "step"
    /\ Top.idx <= Len(StagesOf(Top.owner))
    /\ LET s == CurStage
           prep == Prepare(Env[s], variables)
       IN  IF Kind(s) = "header"
           THEN /\ stack' = SetTop(stack, [Top EXCEPT !.idx = NextIdx(@)])
                /\ last' = Did("header", s, 0)
                /\ UNCHANGED <<defs, variables, trace, log>>
           ELSE /\ log' = SetLevel(log, cfg.log_level[s])
                /\ defs' = [defs EXCEPT ![Len(defs)][s] = prep.def]
                /\ variables' = prep.vs
                /\ IF prep.raised
                   THEN /\ stack' = SetTop(stack, Caught(Top, "ValueError", s))
                        /\ trace' = Append(trace, <<"B", Depth, s>>)
                        /\ last' = Did("render_raised", s, 0)
                   ELSE IF prep.def.skip_if = "T"
                   THEN /\ stack' = SetTop(stack, Advance(Top, ""))
                        /\ trace' = trace \o << <<"B", Depth, s>>, <<"E", Depth, s>> >>
                        /\ last' = Did("skip", s, 0)
                   ELSE /\ stack' = SetTop(stack, [Top EXCEPT !.phase = "call"])
                        /\ trace' = Append(trace, <<"B", Depth, s>>)
                        /\ last' = Did("dispatch", s, 0)
    /\ UNCHANGED <<cfg, tables, outcome, restVars, apiVars, connVars>>

\* ------------------------------------------------------------------------
\* Handlers other than pipeline: transform creates the view, sink pushes prev
\* ------------------------------------------------------------------------
StageExecute ==
    /\ stack # <<>>
    /\ Top.t = "flow" /\ Top.phase = "call"
    /\ Kind(CurStage) \in {"transform", "sink"}
    /\ LET s == CurStage
           prevOk == Top.lastname # "" /\ tables[Top.lastname].exists
       IN  \E ok \in BOOLEAN :
             /\ ~ok => (s \in MayFail \/ (Kind(s) = "sink" /\ ~prevOk))
             /\ ok => (Kind(s) = "sink" => prevOk)
             /\ IF ok
                THEN /\ stack' = SetTop(stack,
                            Advance(Top, IF Kind(s) = "sink" THEN "" ELSE s))
                     /\ tables' = IF Kind(s) = "sink" THEN tables
                                  ELSE [tables EXCEPT ![s] =
                                          [exists |-> TRUE, rows |-> RowsOf(s)]]
                     /\ trace' = Append(trace, <<"E", Depth, s>>)
                     /\ last' = Did("executed", s, 0)
                ELSE /\ stack' = SetTop(stack, Caught(Top, "StageError", s))
                     /\ UNCHANGED <<tables, trace>>
                     /\ last' = Did("stage_raised", s, 0)
    /\ UNCHANGED <<cfg, defs, variables, outcome, log, restVars, apiVars, connVars>>

\* ------------------------------------------------------------------------
\* PipelineStageHandler.execute
\* ------------------------------------------------------------------------
\* variant: no finally clause
NoLoopFinally(vs) == vs

\* finally: db.vars.pop("loop_control", None)
LoopFinally(vs) == [vs EXCEPT !.loop_control = NoRow]

\* db.vars["loop_control"] = item
SetLoopControl(vs, item) == [vs EXCEPT !.loop_control = <<item>>]

\* entry: read the rows of prev and start looping, or run the nested flow once
PipelineExecute ==
    /\ stack # <<>>
    /\ Top.t = "flow" /\ Top.phase = "call"
    /\ Kind(CurStage) = "pipeline"
    /\ LET s == CurStage
           prep == Prepare(Env[s], variables)
       IN  IF Top.lastname # ""
           THEN IF tables[Top.lastname].exists
                THEN /\ stack' = Append(stack, LoopFrame(s, tables[Top.lastname].rows))
                     /\ last' = Did("loop_enter", s, 0)
                     /\ UNCHANGED <<defs, variables, trace>>
                ELSE /\ stack' = SetTop(stack, Caught(Top, "CatalogException", s))
                     /\ last' = Did("stage_raised", s, 0)
                     /\ UNCHANGED <<defs, variables, trace>>
           ELSE /\ defs' = [defs EXCEPT ![Len(defs)][s] = prep.def]
                /\ variables' = prep.vs
                /\ IF prep.raised
                   THEN /\ stack' = SetTop(stack, Caught(Top, "ValueError", s))
                        /\ last' = Did("render_raised", s, 0)
                        /\ UNCHANGED trace
                   ELSE IF prep.def.skip_if = "T"
                   THEN /\ stack' = SetTop(stack, Advance(Top, ""))
                        /\ trace' = Append(trace, <<"E", Depth, s>>)
                        /\ last' = Did("skip", s, 0)
                   ELSE /\ stack' = Append(stack, FlowFrame(s, DefaultFlowControl))
                        /\ trace' = Append(trace, <<"F", Depth + 1, s>>)
                        /\ last' = Did("once_enter", s, 0)
    /\ UNCHANGED <<cfg, tables, outcome, log, restVars, apiVars, connVars>>

\* for item in items: set loop_control, deep-copy and re-render the stage,
\* skip or start the nested flow
LoopIterate ==
    /\ stack # <<>>
    /\ Top.t = "loop" /\ Top.phase = "iter"
    /\ Top.idx < Len(Top.items)
    /\ LET s == Top.owner
           item == Top.items[Top.idx + 1]
           vs1 == SetLoopControl(variables, item)
           prep == Prepare(Env[s], vs1)
       IN  IF prep.raised
           THEN \* prepare is outside the try: the exception leaves execute()
                /\ stack' = SetTop(Pop(stack), Caught(stack[Depth - 1], "ValueError", s))
                /\ variables' = prep.vs
                /\ last' = HandedBack("loop_raise", s, Top.idx + 1, s)
                /\ UNCHANGED <<defs, trace>>
           ELSE IF prep.def.skip_if = "T"
           THEN /\ stack' = SetTop(stack, [Top EXCEPT !.idx = @ + 1])
                /\ variables' = prep.vs
                /\ last' = Did("loop_skip", s, Top.idx + 1)
                /\ UNCHANGED <<defs, trace>>
           ELSE /\ stack' = Append(SetTop(stack, [Top EXCEPT !.phase = "run"]),
                                   FlowFrame(s, DefaultFlowControl))
                /\ defs' = Append(defs, [Env EXCEPT ![s] = prep.def])
                /\ variables' = prep.vs
                /\ trace' = Append(trace, <<"F", Depth + 1, s>>)
                /\ last' = Did("iter_enter", s, Top.idx + 1)
    /\ UNCHANGED <<cfg, tables, outcome, log, restVars, apiVars, connVars>>

\* the for loop is exhausted: return None to StageBlock.do and AsyncFlow.run
LoopReturn ==
    /\ stack # <<>>
    /\ Top.t = "loop" /\ Top.phase = "iter"
    /\ Top.idx = Len(Top.items)
    /\ stack' = SetTop(Pop(stack), Advance(stack[Depth - 1], ""))
    /\ trace' = Append(trace, <<"E", Depth - 1, Top.owner>>)
    /\ last' = HandedBack("loop_return", Top.owner, Top.idx, Top.owner)
    /\ UNCHANGED <<cfg, defs, variables, tables, outcome, log, restVars, apiVars, connVars>>

\* ------------------------------------------------------------------------
\* AsyncFlow.run ends: return self, or raise FlowRunError, to whoever awaits it
\* ------------------------------------------------------------------------
\* variant: the same row is taken again after a nested run
AfterRunSameRow(f) == [f EXCEPT !.phase = "iter"]

\* a nested run returned to the loop that awaits it: finally, next item
AfterRun(f) == [f EXCEPT !.idx = @ + 1, !.phase = "iter"]

\* variant: the run leaves the logger at the level its stages set
KeepLevel(l) == l

\* self.log.setLevel(logging.INFO) when the for loop is exhausted
LevelAfterRun(l) == [l EXCEPT !.level = "INFO"]

FlowReturn ==
    /\ stack # <<>>
    /\ Top.t = "flow" /\ Top.phase = "step"
    /\ Top.idx > Len(StagesOf(Top.owner))
    /\ log' = LevelAfterRun(log)
    /\ trace' = Append(trace, <<"R", Depth, Top.owner>>)
    /\ last' = Did("flow_return", Top.owner, 0)
    /\ IF Depth = 1
       THEN /\ stack' = <<>>
            /\ outcome' = [kind |-> "ok", stage |-> ""]
            /\ UNCHANGED <<defs, variables>>
       ELSE LET caller == stack[Depth - 1]
            IN  IF caller.t = "loop"
                THEN /\ stack' = SetTop(Pop(stack), AfterRun(caller))
                     /\ variables' = LoopFinally(variables)
                     /\ defs' = Pop(defs)
                     /\ UNCHANGED outcome
                ELSE /\ stack' = SetTop(Pop(stack), Advance(caller, ""))
                     /\ UNCHANGED <<defs, variables, outcome>>
    /\ UNCHANGED <<cfg, tables, restVars, apiVars, connVars>>

\* variant: FlowRunError as soon as either the stage or the flow says fail
TerminatesEither(stageOnError, flowOnError) ==
    stageOnError = ON_ERROR_FAIL \/ flowOnError = ON_ERROR_FAIL

\* except Exception: FlowRunError only when the stage and the flow both say fail
Terminates(stageOnError, flowOnError) ==
    stageOnError = ON_ERROR_FAIL /\ flowOnError = ON_ERROR_FAIL

\* the lines the except clause writes: log.error before FlowRunError,
\* log.warning for a stage set to continue, nothing for a stage set to fail
\* in a flow set to continue
FailureLines(s, stageOnError, flowOnError) ==
    IF stageOnError = ON_ERROR_FAIL
    THEN IF flowOnError = ON_ERROR_FAIL THEN {[level |-> "error", stage |-> s]} ELSE {}
    ELSE {[level |-> "warning", stage |-> s]}

FlowExcept ==
    /\ stack # <<>>
    /\ Top.t = "flow" /\ Top.phase = "except"
    /\ log' = [log EXCEPT !.lines = @ \cup FailureLines(CurStage, cfg.on_error[CurStage], Top.fc)]
    /\ LET s == CurStage
           unwinds == Terminates(cfg.on_error[s], Top.fc) /\ Depth > 1
                        /\ stack[Depth - 1].t = "loop"
       IN  /\ last' = IF unwinds
                      THEN HandedBack("except", s, stack[Depth - 1].idx + 1,
                                      stack[Depth - 1].owner)
                      ELSE Did("except", s, 0)
           /\ IF Terminates(cfg.on_error[s], Top.fc)
              THEN /\ trace' = trace \o << <<"E", Depth, s>>, <<"R", Depth, Top.owner>> >>
                   /\ IF Depth = 1
                      THEN /\ stack' = <<>>
                           /\ outcome' = [kind |-> "FlowRunError", stage |-> s]
                           /\ UNCHANGED <<defs, variables>>
                      ELSE LET caller == stack[Depth - 1]
                           IN  IF caller.t = "loop"
                               THEN \* execute(): except logs and re-raises, finally clears
                                    /\ stack' = SetTop(Pop(Pop(stack)),
                                          Caught(stack[Depth - 2], "FlowRunError", s))
                                    /\ variables' = LoopFinally(variables)
                                    /\ defs' = Pop(defs)
                                    /\ UNCHANGED outcome
                               ELSE /\ stack' = SetTop(Pop(stack),
                                          Caught(caller, "FlowRunError", s))
                                    /\ UNCHANGED <<defs, variables, outcome>>
              ELSE /\ stack' = SetTop(stack, Advance(Top, ""))
                   /\ trace' = Append(trace, <<"E", Depth, s>>)
                   /\ UNCHANGED <<defs, variables, outcome>>
    /\ UNCHANGED <<cfg, tables, restVars, apiVars, connVars>>

Next ==
    \/ FlowStep
    \/ StageExecute
    \/ PipelineExecute
    \/ LoopIterate
    \/ LoopReturn
    \/ FlowReturn
    \/ FlowExcept

Spec == Init /\ [][Next]_vars

TypeOK ==
    /\ Len(defs) >= 1
    /\ outcome.kind \in {"running", "ok", "FlowRunError"}
    /\ (stack = <<>>) <=> (outcome.kind # "running")
\* ------------------------------------------------------------------------
\* Properties of the scheduler
\* ------------------------------------------------------------------------
\* the run of the frame at depth d ended in FlowRunError naming stage s
RaisedAt(d, s) ==
    /\ Len(stack) < d
    /\ Len(trace) >= 2
    /\ trace[Len(trace) - 1] = <<"E", d, s>>
    /\ trace[Len(trace)][1] = "R" /\ trace[Len(trace)][2] = d
    /\ IF stack = <<>>
       THEN outcome = [kind |-> "FlowRunError", stage |-> s]
       ELSE Top.t = "flow" /\ Top.phase = "except"
            /\ Top.err = [type |-> "FlowRunError", stage |-> s]

\* the frame at depth d went on to the step after s
ProceededAt(d, s) ==
    /\ Len(stack) = d
    /\ Top.t = "flow" /\ Top.phase = "step"
    /\ Top.idx >= 2 /\ StagesOf(Top.owner)[Top.idx - 1] = s

\* C1 as stated: whenever a stage raised and the stage's on_error or the
\* flow-level on_error is fail, the run ends in FlowRunError naming the stage.
C1_EitherFailTerminates ==
    (last.act = "except"
        /\ (cfg.on_error[last.stage] = ON_ERROR_FAIL \/ last.fc = ON_ERROR_FAIL))
    => RaisedAt(last.depth, last.stage)

\* C1 amended: whenever a stage raised, the run ends in FlowRunError naming the
\* stage (and runs no later stage) exactly when the stage's on_error and the
\* flow-level on_error are both fail; when either is continue the scheduler
\* goes on to the next stage.
C1_BothFailTerminates ==
    last.act = "except" =>
        IF cfg.on_error[last.stage] = ON_ERROR_FAIL /\ last.fc = ON_ERROR_FAIL
        THEN RaisedAt(last.depth, last.stage)
        ELSE ProceededAt(last.depth, last.stage)

\* a stage raised under stage-level continue and flow-level fail, and the
\* scheduler went on to the next stage
C1_Witness ==
    /\ last.act = "except"
    /\ cfg.on_error[last.stage] = ON_ERROR_CONTINUE /\ last.fc = ON_ERROR_FAIL
    /\ ProceededAt(last.depth, last.stage)

\* C2 as stated: whenever a looping pipeline stage hands control back to the
\* parent scheduler, Variables holds no loop_control.
C2_HandBackWithoutLoopControl ==
    last.loop # "" => variables.loop_control = NoRow

\* C2 amended: whenever a looping pipeline stage that started at least one
\* iteration hands control back, after the nested run of its last row
\* returned or because a nested run raised, Variables holds no loop_control;
\* a looping stage with no rows hands back without touching Variables, so
\* inside an outer iteration the outer row is still the loop_control.
C2_HandBackAfterIteration ==
    /\ (last.loop # "" /\ last.n >= 1) => variables.loop_control = NoRow
    /\ (last.loop = "inner" /\ last.act = "loop_return" /\ last.n = 0)
          => /\ Len(stack) = 3 /\ stack[2].t = "loop"
             /\ variables.loop_control = <<stack[2].items[stack[2].idx + 1]>>

\* the nested run of the second row raised and the handler handed back
C2_Witness ==
    /\ last.loop = "loop" /\ last.act = "except" /\ last.n = 2
    /\ variables.loop_control = NoRow

\* C3: while the pipeline stage loops over the k rows of the previous stage,
\* the list holds the ids of the rows done so far, in order; an iteration
\* starts only when the nested run of every earlier one has ended; and when
\* the stage completes the list is exactly the k rows.
C3_OncePerRowInOrder ==
    /\ \A j \in 1..Len(stack) :
          (stack[j].t = "loop" /\ stack[j].owner = "loop" /\ stack[j].phase = "iter")
          => variables.ids = SubSeq(stack[j].items, 1, stack[j].idx)
    /\ (last.act = "loop_return" /\ last.stage = "loop")
          => /\ variables.ids = tables["src"].rows
             /\ Len(variables.ids) = cfg.nrows["src"]
    /\ \A n \in 1..Len(trace) :
          (trace[n][1] = "F" /\ trace[n][3] = "loop")
          => \A i \in 1..(n - 1) :
                (trace[i][1] = "F" /\ trace[i][3] = "loop")
                => \E j \in (i + 1)..(n - 1) : trace[j] = <<"R", trace[i][2], "loop">>

\* the pipeline stage completed over the largest previous table
C3_Witness ==
    /\ last.act = "loop_return" /\ last.stage = "loop"
    /\ cfg.nrows["src"] = MaxRows
    /\ Len(variables.ids) = MaxRows

\* position of a stage in the list the document declares it in
DocList(s) ==
    IF \E i \in 1..Len(TopStages) : TopStages[i] = s THEN TopStages
    ELSE IF \E i \in 1..Len(Children("loop")) : Children("loop")[i] = s
         THEN Children("loop")
         ELSE Children("inner")

DocIndex(s) == CHOOSE i \in 1..Len(DocList(s)) : DocList(s)[i] = s

Max(S) == CHOOSE x \in S : \A y \in S : y <= x

\* latest event before n at depth d or, with shallower, at a depth up to d
LatestAt(n, d, shallower) ==
    LET S == {j \in 1..(n - 1) :
                 IF shallower THEN trace[j][2] <= d ELSE trace[j][2] = d}
    IN  IF S = {} THEN 0 ELSE Max(S)

\* C4: within one run stages begin in document order, a stage begins only
\* when the stage before it has ended, and everything a stage launches
\* (nested runs and their stages) happens between its begin and its end.
C4_StagesInOrderOneAtATime ==
    \A n \in 1..Len(trace) :
        LET e == trace[n]
            p == LatestAt(n, e[2], FALSE)
            q == LatestAt(n, e[2], TRUE)
        IN  CASE e[1] = "B" ->
                    /\ p > 0 /\ q = p
                    /\ \/ trace[p][1] = "F"
                       \/ /\ trace[p][1] = "E"
                          /\ DocList(trace[p][3]) = DocList(e[3])
                          /\ DocIndex(trace[p][3]) < DocIndex(e[3])
              [] e[1] = "E" ->
                    /\ p > 0 /\ q = p
                    /\ trace[p] = <<"B", e[2], e[3]>>
                    /\ \A i \in (p + 1)..(n - 1) :
                          trace[i][1] = "F" =>
                             \E j \in (i + 1)..(n - 1) :
                                trace[j] = <<"R", trace[i][2], trace[i][3]>>
              [] e[1] = "R" ->
                    /\ p > 0 /\ q = p
                    /\ trace[p][1] \in {"F", "E"}
              [] OTHER ->
                    LET r == LatestAt(n, e[2] - 1, TRUE)
                    IN  n = 1 \/ (r > 0 /\ trace[r][1] = "B" /\ trace[r][3] = e[3])

\* the sink began after the pipeline stage, with its nested runs, had ended
C4_Witness ==
    /\ Len(trace) >= 2
    /\ trace[Len(trace)] = <<"B", 1, "snk">>
    /\ trace[Len(trace) - 1] = <<"E", 1, "loop">>
    /\ \E i \in 1..Len(trace) : trace[i] = <<"B", 5, "leaf">>

\* C22 as stated: a run does not modify the stage definitions it was given;
\* when run() has ended every Stage of the document still holds the skip_if
\* and the query it held before the run.
C22_DefinitionsAsGiven ==
    outcome.kind \in {"ok", "FlowRunError"} => defs[1] = InitDefs(cfg.skip_if)

\* the level the logger would have at a stage of the run if every log_level
\* set so far, by a header too, stayed in effect (the document sets it on the
\* first two stages only)
StickyLevel ==
    IF cfg.log_level["src"] # "" THEN cfg.log_level["src"]
    ELSE IF cfg.log_level["hdr"] # "" THEN cfg.log_level["hdr"]
    ELSE "INFO"

C28_SkipIfPerRow ==
    LET s == last.stage
        skips == Truthy(cfg.skip_if[s]) /\ RenderSkipIf(cfg.skip_if[s], variables) = "T"
    IN  /\ last.act = "iter_enter" => ~skips
        /\ last.act = "loop_skip" => skips

\* C29 as stated: whenever a stage raised, the scheduler either ended the
\* run in FlowRunError or logged the failure with the stage's name before
\* going on.
C29_FailureRaisedOrLogged ==
    last.act = "except" =>
        \/ RaisedAt(last.depth, last.stage)
        \/ \E l \in log.lines : l.stage = last.stage

\* C30 as stated: a stage of the nested pipeline that is about to execute
\* while an iteration of the looping stage is in progress observes
\* loop_control equal to the row of that iteration.
C30_NestedStagesSeeTheRow ==
    (Depth >= 2 /\ Top.t = "flow" /\ Top.phase = "call" /\ stack[Depth - 1].t = "loop")
    => variables.loop_control = <<stack[Depth - 1].items[stack[Depth - 1].idx + 1]>>

\* C31 as stated: every nested scheduler runs under the flow-level on_error
\* the top-level flow was given, so a stage failure inside a nested
\* sub-pipeline is handled under that policy.
C31_NestedRunsUnderFlowPolicy ==
    /\ \A d \in 1..Len(stack) : stack[d].t = "flow" => stack[d].fc = cfg.flow_on_error
    /\ last.act = "except" => last.fc = cfg.flow_on_error

MaxRetries == 3
\* requests the remote API answers in one exploration
MaxSends == 5
\* fetches one client is asked for
MaxFetches == 2

\* RestClient.__init__: self.wait = 1, self.retry = 3
INITIAL_WAIT == 1
INITIAL_RETRY == 3

\* initial_backoff of the request, in units of a second
Backoffs == {1, 3}

\* status codes the remote API answers with
Statuses == {200, 404, 429, 500}
\* the request produced no response: the transport raised
NoStatus == 0

Transports == {"server", "browser"}

\* errorhandler.error_status_codes of the request: none (the default), or a
\* status below 400
ErrorStatusCodes == {{}, {200}}

RECURSIVE Pow2(_)
Pow2(n) == IF n <= 0 THEN 1 ELSE 2 * Pow2(n - 1)

\* delay = request.initial_backoff * (2 ** (attempt - 1))
TransportDelay(b, attempt) == b * Pow2(attempt - 1)

\* one activation of fetch(): via tells which handler awaits its return
Frame(via, wait) == [attempt |-> 0, wait |-> wait, via |-> via, phase |-> "send"]

Sent(h, status) ==
    [h EXCEPT !.sent = @ + 1, !.total = @ + 1, !.seen = Append(@, status)]
Slept(h, w) == [h EXCEPT !.waits = Append(@, w)]
Ended(h, how) == [h EXCEPT !.result = how]

InitRest ==
    /\ \E tr \in Transports, mr \in 0..MaxRetries, b \in Backoffs,
          codes \in ErrorStatusCodes :
          req = [transport |-> tr, max_retries |-> mr, initial_backoff |-> b,
                 error_status_codes |-> codes]
    /\ client = [wait |-> INITIAL_WAIT, retry |-> INITIAL_RETRY]
    /\ calls = <<>>
    /\ hist = [sent |-> 0, seen |-> <<>>, waits |-> <<>>, result |-> "new",
               fetches |-> 0, total |-> 0]
    /\ FlowIdle
    /\ ApiIdle
    /\ ConnIdleExcept({})

\* the connector calls client.fetch(request); the client is kept between calls
StartFetch ==
    /\ calls = <<>>
    /\ hist.result \in {"new", "ok"}
    /\ hist.fetches < MaxFetches
    /\ calls' = <<Frame("call", req.initial_backoff)>>
    /\ hist' = [hist EXCEPT !.sent = 0, !.seen = <<>>, !.waits = <<>>,
                            !.result = "pending", !.fetches = @ + 1]
    /\ UNCHANGED <<req, client, flowVars, apiVars, connVars>>

\* self.retry -= 1; self.wait += 1
AfterServerError(c) == [c EXCEPT !.retry = @ - 1, !.wait = @ + 1]

\* response = await self.fetch(self.request); self.wait *= 2
AfterRetry(c) == [c EXCEPT !.wait = @ * 2]

\* server transport: one pass of the while loop of fetch(), with
\* handle_response up to the point where it awaits the nested fetch
ServerSend ==
    /\ req.transport = "server"
    /\ calls # <<>> /\ calls[Len(calls)].phase = "send"
    /\ hist.total < MaxSends
    /\ \E status \in Statuses \cup {NoStatus} :
          LET f == calls[Len(calls)]
              h == Sent(hist, status)
              waiting == SetTop(calls, [f EXCEPT !.phase = "await"])
          IN  IF status = NoStatus
              THEN IF f.attempt + 1 > req.max_retries
                   THEN /\ calls' = <<>>
                        /\ hist' = Ended(h, "RestRequestError")
                        /\ UNCHANGED client
                   ELSE /\ calls' = SetTop(calls, [f EXCEPT !.attempt = @ + 1])
                        /\ hist' = Slept(h, TransportDelay(req.initial_backoff, f.attempt + 1))
                        /\ UNCHANGED client
              ELSE IF status = 429
              THEN /\ calls' = Append(waiting, Frame("429", 0))
                   /\ hist' = Slept(h, client.wait)
                   /\ UNCHANGED client
              ELSE IF status >= 500
              THEN IF client.retry = 0
                   THEN /\ calls' = <<>>
                        /\ hist' = Ended(h, "RestRequestError")
                        /\ UNCHANGED client
                   ELSE /\ calls' = Append(waiting, Frame("5xx", 0))
                        /\ hist' = Slept(h, client.wait)
                        /\ client' = AfterServerError(client)
              ELSE IF status >= 400
              THEN /\ calls' = <<>>
                   /\ hist' = Ended(h, "RestRequestError")
                   /\ UNCHANGED client
              ELSE /\ calls' = SetTop(calls, [f EXCEPT !.phase = "ret"])
                   /\ hist' = h
                   /\ UNCHANGED client
    /\ UNCHANGED <<req, flowVars, apiVars, connVars>>

\* server transport: fetch() returns RestResponse to the handler awaiting it
ServerReturn ==
    /\ req.transport = "server"
    /\ calls # <<>> /\ calls[Len(calls)].phase = "ret"
    /\ LET f == calls[Len(calls)]
       IN  IF f.via = "call"
           THEN /\ calls' = <<>>
                /\ hist' = Ended(hist, "ok")
                /\ UNCHANGED client
           ELSE /\ calls' = SetTop(Pop(calls), [calls[Len(calls) - 1] EXCEPT !.phase = "ret"])
                /\ client' = IF f.via = "429" THEN AfterRetry(client) ELSE client
                /\ UNCHANGED hist
    /\ UNCHANGED <<req, flowVars, apiVars, connVars>>

\* browser transport: one pass of `for attempt in range(max_retries + 1)`
BrowserSend ==
    /\ req.transport = "browser"
    /\ calls # <<>>
    /\ hist.total < MaxSends
    /\ \E status \in Statuses \cup {NoStatus} :
          LET f == calls[Len(calls)]
              h == Sent(hist, status)
              lastAttempt == f.attempt = req.max_retries
              again == SetTop(calls, [f EXCEPT !.attempt = @ + 1, !.wait = @ * 2])
          IN  IF status # NoStatus /\ status < 400
                 /\ status \notin req.error_status_codes
              THEN /\ calls' = <<>>
                   /\ hist' = Ended(h, "ok")
              ELSE IF status = 429 \/ status >= 500
              THEN IF lastAttempt
                   THEN /\ calls' = <<>>
                        /\ hist' = Ended(h, IF status = 429 THEN "RestRateLimitError"
                                                           ELSE "RestRetryableError")
                   ELSE /\ calls' = again
                        /\ hist' = Slept(h, f.wait)
              ELSE IF lastAttempt
                   THEN /\ calls' = <<>>
                        /\ hist' = Ended(h, "RestRequestError")
                   ELSE /\ calls' = again
                        /\ hist' = Slept(h, f.wait)
    /\ UNCHANGED <<req, client, flowVars, apiVars, connVars>>

NextRest ==
    \/ StartFetch
    \/ ServerSend
    \/ ServerReturn
    \/ BrowserSend

SpecRest == InitRest /\ [][NextRest]_vars

\* ------------------------------------------------------------------------
\* Properties of the REST client
\* ------------------------------------------------------------------------
FetchErrors == {"RestRequestError", "RestRateLimitError", "RestRetryableError"}

\* every response of the fetch so far was a 200, a 429 or a 5xx
OnlyRetryMix == \A i \in 1..Len(hist.seen) : hist.seen[i] \in {200, 429, 500}

\* every response of the fetch so far was a 429 or a 5xx
OnlyRetryable == \A i \in 1..Len(hist.seen) : hist.seen[i] \in {429, 500}

\* C5: in a fetch answered only by 200, 429 and 5xx the request is sent at
\* most max_retries + 1 times, and when the last of max_retries + 1 answers
\* is still a 429 or a 5xx the fetch has ended in an error.
C5_SendsWithinMaxRetries ==
    OnlyRetryMix =>
        /\ hist.sent <= req.max_retries + 1
        /\ (hist.sent = req.max_retries + 1 /\ OnlyRetryable)
              => hist.result \in FetchErrors

\* C6: the n-th wait of a fetch is initial_backoff * 2^(n-1).
C6_WaitsDoubleFromInitialBackoff ==
    \A n \in 1..Len(hist.waits) :
        hist.waits[n] = req.initial_backoff * Pow2(n - 1)

\* C7: a fetch that ends in an error ends in RestRequestError, and a fetch
\* whose max_retries + 1 answers were all 429 or 5xx has ended in it.
C7_ExhaustionIsRequestError ==
    /\ hist.result \in FetchErrors => hist.result = "RestRequestError"
    /\ (hist.sent = req.max_retries + 1 /\ OnlyRetryable)
          => hist.result = "RestRequestError"

\* C23 as stated: a 4xx response other than 429 ends the fetch in
\* RestRequestError: it is the last response of the fetch, no sleep follows
\* it and the request is not sent again, whatever max_retries is.
C23_ClientErrorEndsTheFetch ==
    \A i \in 1..Len(hist.seen) :
        (hist.seen[i] >= 400 /\ hist.seen[i] < 500 /\ hist.seen[i] # 429)
        => /\ i = Len(hist.seen)
           /\ Len(hist.waits) < i
           /\ hist.result = "RestRequestError"

\* the server transport alone keeps C23
ServerClientErrorEndsTheFetch == req.transport = "server" => C23_ClientErrorEndsTheFetch

\* C34 as stated: a fetch starts with the full retry budget and the initial
\* backoff, whatever the earlier fetches through the same client retried.
C34_FetchStartsFresh ==
    (hist.result = "pending" /\ hist.sent = 0)
    => /\ client = [wait |-> INITIAL_WAIT, retry |-> INITIAL_RETRY]
       /\ calls = <<Frame("call", req.initial_backoff)>>

\* the browser transport alone keeps C34: its backoff and attempt count are
\* locals of fetch()
BrowserFetchStartsFresh == req.transport = "browser" => C34_FetchStartsFresh

\* C36 as stated: a fetch whose last response has a status listed in
\* errorhandler.error_status_codes ends in RestRequestError, in both
\* transports, for a status below 400 too.
C36_ErrorStatusRaises ==
    (hist.result \notin {"idle", "new", "pending"} /\ hist.seen # <<>>
        /\ hist.seen[Len(hist.seen)] \in req.error_status_codes)
    => hist.result = "RestRequestError"

\* the browser transport alone keeps C36
BrowserErrorStatusRaises == req.transport = "browser" => C36_ErrorStatusRaises

\* ------------------------------------------------------------------------
\* REST response handling: RestApi.fetch and RestApi.handle_response
\* ------------------------------------------------------------------------
\* records the remote API holds
MaxTotal == 7
\* largest page_size configured
MaxPageSize == 2
\* requests the remote job may answer as not ready
MaxNotReady == 2
\* polls the exploration follows
MaxPolls == 3
\* requests the exploration follows
MaxRequests == MaxTotal + 2

\* the page parameter of the original request, and Paginator.increment
FIRST_PAGE == 1
INCREMENT == 1

HandlerKinds == {"Basic", "Paginator", "StatePolling", "URLPolling"}

\* records the total_records expression may report beyond those the remote
\* API ever returns
MaxOverReport == 1

\* Paginator.throttle, in seconds: unset, or set
Throttles == {0, 2}

Min(a, b) == IF a <= b THEN a ELSE b

\* records on the page the remote API serves for page parameter p
PageLen(held, size, p) ==
    LET before == ((p - FIRST_PAGE) \div INCREMENT) * size
    IN  IF held <= before THEN 0 ELSE Min(size, held - before)

\* what the remote API answers to the i-th request, asking for page p
Answer(p, i) ==
    [status |-> 200,
     records |-> IF apicfg.kind = "Paginator"
                 THEN PageLen(apicfg.held, apicfg.page_size, p)
                 ELSE apicfg.held,
     total |-> apicfg.reported,
     ready |-> i > apicfg.notready,
     url |-> apicfg.has_url]

InitApi ==
    /\ \E kind \in HandlerKinds, size \in 1..MaxPageSize, tr \in BOOLEAN,
          held \in 0..MaxTotal, nr \in 0..MaxNotReady, over \in 0..MaxOverReport,
          th \in Throttles, rs \in BOOLEAN, url \in BOOLEAN :
          /\ kind # "Paginator" => (size = 1 /\ tr = FALSE /\ th = 0)
          /\ ~tr => over = 0
          /\ kind \notin {"StatePolling", "URLPolling"} => nr = 0
          /\ kind # "URLPolling" => (rs = (kind = "StatePolling") /\ url = FALSE)
          /\ apicfg = [kind |-> kind, page_size |-> size, total_records |-> tr,
                       held |-> held, notready |-> nr, reported |-> held + over,
                       throttle |-> th, ready_status |-> rs, has_url |-> url]
    /\ handler = [phase |-> "new", current_page |-> FIRST_PAGE, received |-> 0,
                  polls |-> 0, wait |-> 0, error |-> "", events |-> <<>>,
                  tmpfile |-> FALSE]
    /\ resp = NoResponse
    /\ net = <<>>
    /\ mat = <<>>
    /\ FlowIdle
    /\ RestIdle
    /\ ConnIdleExcept({})

\* RestApi.fetch: resp = await self._client.fetch(self.req)
ApiFetch ==
    /\ handler.phase = "new"
    /\ net' = Append(net, FIRST_PAGE)
    /\ \E ok \in BOOLEAN :
          LET h == [handler EXCEPT !.events = Append(@, <<"req", FIRST_PAGE>>)]
          IN  IF ok
              THEN /\ resp' = Answer(FIRST_PAGE, Len(net) + 1)
                   /\ handler' = [h EXCEPT !.phase = "handle"]
              ELSE /\ resp' = resp
                   /\ handler' = [h EXCEPT !.phase = "failed",
                                           !.error = "RestRequestError"]
    /\ UNCHANGED <<apicfg, mat, flowVars, restVars, connVars>>

\* no handler, or a Basic one: read the response and materialize it
BasicHandle ==
    /\ handler.phase = "handle"
    /\ apicfg.kind = "Basic"
    /\ mat' = Append(mat, resp.records)
    /\ handler' = [handler EXCEPT !.phase = "done",
                                  !.events = Append(@, <<"mat", resp.records>>)]
    /\ UNCHANGED <<apicfg, resp, net, flowVars, restVars, connVars>>

\* self.wait = self.wait * 1.5 if self.wait else 1, counted in growth steps:
\* after s >= 1 steps the wait is 1.5^(s-1) seconds
GrowWait(w) == w + 1

\* StatePollingHandler.poll on the response the loop holds, and the loop's test
StatePoll ==
    /\ handler.phase = "handle"
    /\ apicfg.kind = "StatePolling"
    /\ handler.polls < MaxPolls
    /\ IF resp.ready
       THEN /\ mat' = Append(mat, resp.records)
            /\ handler' = [handler EXCEPT !.polls = @ + 1, !.wait = GrowWait(@),
                                          !.phase = "done",
                                          !.events = Append(@, <<"mat", resp.records>>)]
       ELSE /\ mat' = mat
            /\ handler' = [handler EXCEPT !.polls = @ + 1,
                                          !.wait = GrowWait(GrowWait(@))]
    /\ UNCHANGED <<apicfg, resp, net, flowVars, restVars, connVars>>

\* variant: goes on while the total is not below what was received
HasNextByTotalOrEqual(total, received) == ~(total < received)

\* has_next with total_records: total_count <= self._received_count ends it
HasNextByTotal(total, received) == ~(total <= received)

\* variant: only an empty page ends the paging
HasNextUntilEmpty(n, size) == ~(n = 0)

\* has_next without total_records: len(self._records) < page_size ends it
HasNextBySize(n, size) == ~(n < size)

HasNext(r, received) ==
    IF apicfg.total_records
    THEN HasNextByTotal(r.total, received)
    ELSE HasNextBySize(r.records, apicfg.page_size)

\* variant: sleeps whatever the throttle is
ThrottleAlways(throttle) == <<<<"sleep", throttle>>>>

\* if self.res.handler.throttle and self.res.handler.throttle > 0:
\*     await sleep(self.res.handler.throttle)
Throttle(throttle) == IF throttle > 0 THEN <<<<"sleep", throttle>>>> ELSE <<>>

\* one pass of the paginator loop: next(resp), materialize, then stop or
\* fetch the request of the next page
PageStep ==
    /\ handler.phase = "handle"
    /\ apicfg.kind = "Paginator"
    /\ LET received == handler.received + resp.records
           page == handler.current_page + INCREMENT
           h == [handler EXCEPT !.received = received,
                                !.events = Append(@, <<"mat", resp.records>>)]
       IN  /\ mat' = Append(mat, resp.records)
           /\ IF ~HasNext(resp, received)
              THEN /\ handler' = [h EXCEPT !.phase = "done"]
                   /\ UNCHANGED <<resp, net>>
              ELSE /\ Len(net) < MaxRequests
                   /\ net' = Append(net, page)
                   /\ \E ok \in BOOLEAN :
                         LET g == [h EXCEPT !.current_page = page,
                                            !.events = @ \o Throttle(apicfg.throttle)
                                                         \o <<<<"req", page>>>>]
                         IN  IF ok
                             THEN /\ resp' = Answer(page, Len(net) + 1)
                                  /\ handler' = g
                             ELSE /\ resp' = resp
                                  /\ handler' = [g EXCEPT !.phase = "failed",
                                                          !.error = "RestRequestError"]
    /\ UNCHANGED <<apicfg, flowVars, restVars, connVars>>

\* variant: the first response always completes the polling
CompletedAtOnce(ready_status, r) == TRUE

\* completed = True; if self.res.handler.ready_status:
\*     completed = jmespath.search(self.res.handler.ready_status, data)
Completed(ready_status, r) == IF ready_status THEN r.ready ELSE TRUE

\* URLPollingHandler.poll on the response the loop holds, the loop's test,
\* and the request issued again when the URL is not ready
URLPoll ==
    /\ handler.phase = "handle"
    /\ apicfg.kind = "URLPolling"
    /\ LET h == [handler EXCEPT !.polls = @ + 1, !.wait = GrowWait(@)]
       IN  IF Completed(apicfg.ready_status, resp)
           THEN /\ handler' = [h EXCEPT !.phase = "ready"]
                /\ UNCHANGED <<resp, net>>
           ELSE /\ net' = Append(net, FIRST_PAGE)
                /\ \E ok \in BOOLEAN :
                      LET g == [h EXCEPT !.events = Append(@, <<"req", FIRST_PAGE>>)]
                      IN  IF ok
                          THEN /\ resp' = Answer(FIRST_PAGE, Len(net) + 1)
                               /\ handler' = g
                          ELSE /\ resp' = resp
                               /\ handler' = [g EXCEPT !.phase = "failed",
                                                       !.error = "RestRequestError"]
    /\ UNCHANGED <<apicfg, mat, flowVars, restVars, connVars>>

\* Materializer.materialize, finally: if filename: self._cleanup_file(filename)
Cleanup(h) == [h EXCEPT !.events = Append(@, <<"rm", 0>>), !.tmpfile = FALSE]

\* after the polling loop: the URL is streamed to poller.tmppath (or, with no
\* URL in the response, the empty file is created), and the file is
\* materialized: create_table, then insert and, finally, delete the file
URLMaterialize ==
    /\ handler.phase = "ready"
    /\ apicfg.kind = "URLPolling"
    /\ \E streamed \in BOOLEAN, out \in {"ok", "create", "insert"} :
          LET got == IF resp.url THEN <<"stream", resp.records>> ELSE <<"touch", 0>>
              rows == IF resp.url THEN resp.records ELSE 0
              h == [handler EXCEPT !.events = Append(@, got), !.tmpfile = TRUE]
          IN  IF resp.url /\ ~streamed
              THEN /\ handler' = [handler EXCEPT !.phase = "failed",
                                                 !.error = "RestRequestError"]
                   /\ mat' = mat
              ELSE IF out = "create"
              THEN /\ handler' = [h EXCEPT !.phase = "failed",
                                           !.error = "Failed to create table"]
                   /\ mat' = mat
              ELSE IF out = "insert"
              THEN /\ handler' = Cleanup([h EXCEPT !.phase = "failed",
                                                   !.error = "Materialization failed"])
                   /\ mat' = mat
              ELSE /\ handler' = Cleanup([h EXCEPT !.phase = "done",
                                                   !.events = Append(@, <<"mat", rows>>)])
                   /\ mat' = Append(mat, rows)
    /\ UNCHANGED <<apicfg, resp, net, flowVars, restVars, connVars>>

NextApi ==
    \/ ApiFetch
    \/ BasicHandle
    \/ StatePoll
    \/ PageStep
    \/ URLPoll
    \/ URLMaterialize

SpecApi == InitApi /\ [][NextApi]_vars

\* ------------------------------------------------------------------------
\* Properties of the response handling
\* ------------------------------------------------------------------------
Ceil(a, b) == (a + b - 1) \div b

RECURSIVE SumSeq(_)
SumSeq(q) == IF q = <<>> THEN 0 ELSE Head(q) + SumSeq(Tail(q))

\* rows of the stage table: the first batch creates it, the later ones are
\* inserted into it
TableRows == SumSeq(mat)

\* the remote API serves the records its total reports
ServesTheTotal == apicfg.reported = apicfg.held

PagingDone(byTotal) ==
    /\ apicfg.kind = "Paginator" /\ apicfg.total_records = byTotal
    /\ handler.phase = "done"

\* the requests ask for consecutive pages, starting with the first
PagesInOrder == \A i \in 1..Len(net) : net[i] = FIRST_PAGE + (i - 1) * INCREMENT

\* one batch was materialized per request, and it is the page that request got
EachPageOnce ==
    /\ Len(mat) = Len(net)
    /\ \A i \in 1..Len(net) :
          mat[i] = PageLen(apicfg.held, apicfg.page_size, net[i])

\* C8: with a state-polling handler every poll examines the response of a
\* request of its own (the request is re-issued until a response is ready),
\* and on completion the ready response was materialized exactly once.
C8_PollsReissueRequest ==
    apicfg.kind = "StatePolling" =>
        /\ handler.polls <= Len(net)
        /\ handler.phase = "done" => (resp.ready /\ mat = <<resp.records>>)

\* C9 as stated: a finished paginator with total_records reporting T, against
\* a server that serves those T records, issued exactly ceil(T/N) requests
\* and materialized every returned page once.
C9_CeilRequests ==
    (PagingDone(TRUE) /\ ServesTheTotal) =>
        /\ Len(net) = Ceil(apicfg.held, apicfg.page_size)
        /\ EachPageOnce

\* C9 amended: a paginator with total_records reporting T, against a server
\* that serves those T records, never issues more
\* than ceil(T/N) requests, or than the one first request when T = 0; the
\* requests ask for consecutive pages; and when it finishes it has issued
\* exactly that many and materialized every returned page exactly once, T
\* rows in all.
C9_CeilRequestsFirstIncluded ==
    (apicfg.kind = "Paginator" /\ apicfg.total_records /\ ServesTheTotal) =>
        LET needed == IF apicfg.held = 0 THEN 1
                      ELSE Ceil(apicfg.held, apicfg.page_size)
        IN  /\ Len(net) <= needed
            /\ PagesInOrder
            /\ handler.phase = "done" =>
                  /\ Len(net) = needed
                  /\ EachPageOnce
                  /\ TableRows = apicfg.held

\* seven records paged by two were fetched in four requests
C9_Witness ==
    /\ PagingDone(TRUE)
    /\ apicfg.held = 7 /\ apicfg.page_size = 2
    /\ Len(net) = 4 /\ mat = <<2, 2, 2, 1>>

\* C10: with total_records absent no request follows a page shorter than
\* page_size; the paginator finishes on the first such page, every page
\* materialized once; pages of 2, 2, 2 and 1 records make 4 requests and a
\* table of 7 rows.
C10_StopsAtFirstShortPage ==
    (apicfg.kind = "Paginator" /\ ~apicfg.total_records) =>
        /\ \A i \in 1..(Len(net) - 1) :
              PageLen(apicfg.held, apicfg.page_size, net[i]) = apicfg.page_size
        /\ handler.phase = "done" =>
              /\ mat[Len(mat)] < apicfg.page_size
              /\ Len(net) = (apicfg.held \div apicfg.page_size) + 1
              /\ PagesInOrder
              /\ EachPageOnce
              /\ TableRows = apicfg.held
        /\ (handler.phase = "done" /\ apicfg.held = 7 /\ apicfg.page_size = 2) =>
              /\ net = <<1, 2, 3, 4>>
              /\ mat = <<2, 2, 2, 1>>
              /\ TableRows = 7

\* pages of 2, 2, 2 and 1 records were fetched and paging has finished
C10_Witness ==
    /\ PagingDone(FALSE)
    /\ apicfg.page_size = 2
    /\ mat = <<2, 2, 2, 1>>
    /\ Len(net) = 4 /\ TableRows = 7

\* C35 as stated: the paginator sends no request after a page that returned
\* zero records, also when total_records reports more records than the
\* remote API ever returns.
C35_StopsAtEmptyPage ==
    apicfg.kind = "Paginator" =>
        \A i \in 1..Len(mat) : mat[i] = 0 => Len(net) <= i

\* without total_records an empty page ends the paging
SizePagingStopsAtEmptyPage == ~apicfg.total_records => C35_StopsAtEmptyPage

\* requests a URL-polling handler needs: one, and one more for every response
\* that is not ready when ready_status is configured
PollsNeeded == IF apicfg.ready_status THEN apicfg.notready + 1 ELSE 1

C38_MaterializedThenThrottled ==
    apicfg.kind = "Paginator" =>
        LET ev == handler.events
        IN  /\ \A i \in 2..Len(ev) :
                  ev[i][1] = "req" =>
                      IF apicfg.throttle > 0
                      THEN /\ i > 2
                           /\ ev[i - 1] = <<"sleep", apicfg.throttle>>
                           /\ ev[i - 2][1] = "mat"
                      ELSE ev[i - 1][1] = "mat"
            /\ \A i \in 1..Len(ev) :
                  /\ ev[i][1] = "sleep" => (i < Len(ev) /\ ev[i + 1][1] = "req")
                  /\ ev[i][1] = "mat" =>
                        /\ i > 1 /\ ev[i - 1][1] = "req"
                        /\ ev[i][2] = PageLen(apicfg.held, apicfg.page_size, ev[i - 1][2])
            /\ handler.phase = "done" => ev[Len(ev)][1] = "mat"
            /\ Len(SelectSeq(ev, LAMBDA e : e[1] = "req")) = Len(net)
            /\ Len(SelectSeq(ev, LAMBDA e : e[1] = "mat")) = Len(mat)

\* three pages were fetched under a throttle of 2 seconds
C38_Witness ==
    /\ PagingDone(FALSE) /\ apicfg.throttle = 2
    /\ handler.events = << <<"req", 1>>, <<"mat", 2>>, <<"sleep", 2>>,
                           <<"req", 2>>, <<"mat", 2>>, <<"sleep", 2>>,
                           <<"req", 3>>, <<"mat", 1>> >>

\* ========================================================================
\* Row-database streaming tap (connections/clickhouse.py)
\* ========================================================================
\* rows the remote stream holds, block sizes (self._blocksize is never 0:
\* cfg.clickhouse.blocksize or DEFAULT_STREAM_BLOCK), and rows a stage table
\* of the same name may already hold when the tap starts
MaxStream == 5
MaxBlock == 3
MaxExisting == 1

InitTap ==
    /\ FlowIdle
    /\ RestIdle
    /\ ApiIdle
    /\ ConnIdleExcept({"tap"})
    /\ \E n \in 0 .. MaxStream, b \in 1 .. MaxBlock, old \in 0 .. MaxExisting :
         tap = [n |-> n, blocksize |-> b, pc |-> "begin", read |-> 0, columns |-> FALSE,
                rows |-> 0, df |-> 0, ret |-> "",
                table |-> IF old = 0 THEN NoStageTable ELSE [exists |-> TRUE, rows |-> old],
                snapshot |-> NoStageTable, txn |-> "none", chdf_chunk |-> FALSE,
                flushes |-> <<>>, pending |-> "", result |-> "running",
                stage |-> "tap", raised |-> ""]

\* await self.c.sql("BEGIN TRANSACTION")
TapBegin ==
    /\ tap.pc = "begin"
    /\ tap' = [tap EXCEPT !.pc = "for", !.txn = "open", !.snapshot = tap.table]
    /\ UNCHANGED <<flowVars, restVars, apiVars, gen, bq, ddb, rd, tmpv, ioVars>>

\* for chunk in result: the first chunk names the columns, each later one is a
\* row appended to the buffer; the remote stream may raise at any chunk
StreamNext ==
    /\ tap.pc = "for"
    /\ \/ /\ ~tap.columns
          /\ tap' = [tap EXCEPT !.columns = TRUE]
       \/ /\ tap.columns /\ tap.read < tap.n
          /\ tap' = [tap EXCEPT !.read = @ + 1, !.rows = @ + 1, !.pc = "while"]
       \/ /\ tap.read = tap.n /\ (tap.columns \/ tap.n = 0)
          /\ tap' = [tap EXCEPT !.pc = "tail"]
       \/ /\ tap.read < tap.n \/ ~tap.columns
          /\ tap' = [tap EXCEPT !.pc = "except"]
    /\ UNCHANGED <<flowVars, restVars, apiVars, gen, bq, ddb, rd, tmpv, ioVars>>

\* while len(rows) >= self._blocksize: flush rows[:blocksize], keep the rest
WhileFull ==
    /\ tap.pc = "while"
    /\ IF tap.rows >= tap.blocksize
       THEN tap' = [tap EXCEPT !.df = tap.blocksize, !.rows = @ - tap.blocksize,
                                !.ret = "while", !.pc = "register"]
       ELSE tap' = [tap EXCEPT !.pc = "for"]
    /\ UNCHANGED <<flowVars, restVars, apiVars, gen, bq, ddb, rd, tmpv, ioVars>>

\* if rows: flush what is left after the stream ended
TailFlush ==
    /\ tap.pc = "tail"
    /\ IF tap.rows > 0
       THEN tap' = [tap EXCEPT !.df = tap.rows, !.rows = 0, !.ret = "commit",
                                !.pc = "register"]
       ELSE tap' = [tap EXCEPT !.pc = "commit"]
    /\ UNCHANGED <<flowVars, restVars, apiVars, gen, bq, ddb, rd, tmpv, ioVars>>

\* _create_or_insert_df: await self.c.register("chdf_chunk", df); a failure is
\* caught by `except Exception` and only logged
Register ==
    /\ tap.pc = "register"
    /\ \/ tap' = [tap EXCEPT !.chdf_chunk = TRUE, !.pc = "insert"]
       \/ tap' = [tap EXCEPT !.pending = "lost", !.pc = "unregister"]
    /\ UNCHANGED <<flowVars, restVars, apiVars, gen, bq, ddb, rd, tmpv, ioVars>>

\* INSERT INTO "<table>" SELECT * FROM chdf_chunk: CatalogException when the
\* table does not exist; any other failure is caught and only logged, and may
\* leave the open transaction aborted
Insert ==
    /\ tap.pc = "insert"
    /\ IF ~tap.table.exists
       THEN tap' = [tap EXCEPT !.pc = "create"]
       ELSE \/ tap' = [tap EXCEPT !.table.rows = @ + tap.df, !.pending = "insert",
                                   !.pc = "unregister"]
            \/ \E t \in {"open", "aborted"} :
                 tap' = [tap EXCEPT !.pending = "lost", !.txn = t, !.pc = "unregister"]
    /\ UNCHANGED <<flowVars, restVars, apiVars, gen, bq, ddb, rd, tmpv, ioVars>>

\* except CatalogException: CREATE TABLE "<table>" AS SELECT * FROM chdf_chunk;
\* a failure here leaves the handler and propagates
Create ==
    /\ tap.pc = "create"
    /\ \/ tap' = [tap EXCEPT !.table = [exists |-> TRUE, rows |-> tap.df],
                              !.pending = "create", !.pc = "unregister"]
       \/ tap' = [tap EXCEPT !.pending = "raised", !.pc = "unregister"]
    /\ UNCHANGED <<flowVars, restVars, apiVars, gen, bq, ddb, rd, tmpv, ioVars>>

\* finally: await self.c.unregister("chdf_chunk"); then return to the caller
\* or let the pending exception go on to tap()
Unregister ==
    /\ tap.pc = "unregister"
    /\ tap' = [tap EXCEPT !.chdf_chunk = FALSE, !.df = 0, !.pending = "",
                           !.flushes = Append(@, [size |-> tap.df, how |-> tap.pending]),
                           !.pc = IF tap.pending = "raised" THEN "except" ELSE tap.ret]
    /\ UNCHANGED <<flowVars, restVars, apiVars, gen, bq, ddb, rd, tmpv, ioVars>>

\* await self.c.sql("COMMIT"): fails on an aborted transaction
Commit ==
    /\ tap.pc = "commit"
    /\ IF tap.txn = "aborted"
       THEN tap' = [tap EXCEPT !.pc = "except"]
       ELSE tap' = [tap EXCEPT !.txn = "committed", !.pc = "done", !.result = "ok"]
    /\ UNCHANGED <<flowVars, restVars, apiVars, gen, bq, ddb, rd, tmpv, ioVars>>

\* except Exception: ROLLBACK, raise UnrecoverableTapError
Rollback ==
    /\ tap.pc = "except"
    /\ tap' = [tap EXCEPT !.table = tap.snapshot, !.txn = "rolledback", !.pc = "done",
                           !.result = "UnrecoverableTapError"]
    /\ UNCHANGED <<flowVars, restVars, apiVars, gen, bq, ddb, rd, tmpv, ioVars>>

\* TapStageHandler.execute, conn.tap returned: return name
TapStageReturn ==
    /\ tap.pc = "done" /\ tap.stage = "tap" /\ tap.result = "ok"
    /\ tap' = [tap EXCEPT !.stage = "returned"]
    /\ UNCHANGED <<flowVars, restVars, apiVars, gen, bq, ddb, rd, tmpv, ioVars>>

\* variant: the table is put back as it was before the tap
KeepEarlier(table, snapshot) == snapshot

\* await self.idb.sql(f'DROP TABLE IF EXISTS "{name}"')
DropIfExists(table, snapshot) == NoStageTable

\* TapStageHandler.execute, except Exception as e: log.error(e), drop the
\* stage table, raise
TapStageExcept ==
    /\ tap.pc = "done" /\ tap.stage = "tap" /\ tap.result # "ok"
    /\ tap' = [tap EXCEPT !.table = DropIfExists(tap.table, tap.snapshot),
                           !.stage = "raised", !.raised = tap.result]
    /\ UNCHANGED <<flowVars, restVars, apiVars, gen, bq, ddb, rd, tmpv, ioVars>>

NextTap ==
    \/ TapStageReturn
    \/ TapStageExcept
    \/ TapBegin
    \/ StreamNext
    \/ WhileFull
    \/ TailFlush
    \/ Register
    \/ Insert
    \/ Create
    \/ Unregister
    \/ Commit
    \/ Rollback

SpecTap == InitTap /\ [][NextTap]_vars

\* ---- properties of the streaming tap
\* flushes whose exception _create_or_insert_df caught and logged
LostFlushes == {i \in 1 .. Len(tap.flushes) : tap.flushes[i].how = "lost"}

\* rows the flushes so far put into the stage table
RECURSIVE Loaded(_)
Loaded(fl) ==
    IF fl = <<>> THEN 0
    ELSE (IF fl[1].how \in {"insert", "create"} THEN fl[1].size ELSE 0) + Loaded(Tail(fl))

\* C11: an exception while a block is streamed or flushed ends the tap in
\* ROLLBACK and UnrecoverableTapError: COMMIT is issued only when every block
\* was flushed successfully, so after a normal return no flush has failed and
\* the stage table holds every streamed row on top of what it held before
C11_CommitOnlyAfterEveryFlush ==
    tap.result = "ok" =>
        /\ LostFlushes = {}
        /\ tap.table.rows = tap.snapshot.rows + tap.n

\* the same for the exceptions tap() does see: a stream that raises and a
\* CREATE TABLE that fails end in ROLLBACK with the table as it was at BEGIN
TapRaisesRolledBack ==
    (tap.result = "UnrecoverableTapError" /\ tap.stage = "tap") =>
        /\ tap.txn = "rolledback"
        /\ tap.table = tap.snapshot

\* C12: a stream of n rows with blocksize B into a stage table that did not
\* exist is loaded by ceil(n/B) flushes of at most B rows, the first creating
\* the table and the later ones inserting, and the table ends with n rows
C12_CeilFlushesAllRows ==
    (tap.result = "ok" /\ ~tap.snapshot.exists) =>
        /\ Len(tap.flushes) = Ceil(tap.n, tap.blocksize)
        /\ \A i \in 1 .. Len(tap.flushes) :
             /\ tap.flushes[i].size \in 1 .. tap.blocksize
             /\ tap.flushes[i].how = (IF i = 1 THEN "create" ELSE "insert")
        /\ tap.table.rows = tap.n

\* without a failed flush the tap loads every row of the stream, in
\* ceil(n/B) flushes when the stage table did not exist
CleanTapLoadsAll ==
    /\ (tap.result = "ok" /\ LostFlushes = {}) =>
          tap.table.rows = tap.snapshot.rows + tap.n
    /\ (tap.result = "ok" /\ ~tap.snapshot.exists /\ LostFlushes = {}) =>
          /\ Len(tap.flushes) = Ceil(tap.n, tap.blocksize)
          /\ \A i \in 1 .. Len(tap.flushes) :
               /\ tap.flushes[i].size \in 1 .. tap.blocksize
               /\ tap.flushes[i].how = (IF i = 1 THEN "create" ELSE "insert")
          /\ tap.table.rows = tap.n
          /\ tap.table.rows = Loaded(tap.flushes)

C33_TableHoldsThisExecution ==
    (tap.stage = "returned" /\ LostFlushes = {}) => tap.table.rows = tap.n

\* a first execution, with no table of that name before it, keeps C33
FirstExecutionHoldsItsRows == ~tap.snapshot.exists => C33_TableHoldsThisExecution

\* ========================================================================
\* LLM query generation tap (connections/llm/sqlgen.py)
\* ========================================================================
\* model calls the environment is allowed to answer (the code stops earlier)
MaxCalls == 6
\* characters of an SQL error text
MaxErrorLen == 1

\* self._max_retries = 3
MAX_RETRIES == 3
\* str(error).replace("'", "''")[:500]
FAIL_LIMIT == 500

REPLAYABLE_SQL_ERRORS == {"CatalogException", "BinderException", "ParserException",
                          "SyntaxException"}
\* error texts: short strings over a letter and the single quote
ErrorTexts == UNION {[1 .. k -> {"x", "'"}] : k \in 1 .. MaxErrorLen}

\* str.replace("'", "''")
RECURSIVE DoubleQuotes(_)
DoubleQuotes(t) ==
    IF t = <<>> THEN <<>>
    ELSE (IF t[1] = "'" THEN <<"'", "'">> ELSE <<t[1]>>) \o DoubleQuotes(Tail(t))

\* what _replay stores under <stage>_fail
NoFailMessage(error) == <<"unset">>

FailMessage(error) ==
    LET t == DoubleQuotes(error) IN SubSeq(t, 1, Min(Len(t), FAIL_LIMIT))

\* extras of a re-prompt: the prior query, the error text, the prior message
Extras(response, error) ==
    [query |-> response.query, error |-> error,
     message |-> IF response.message = "" THEN "<none>" ELSE response.message]

\* the first prompt carries no extras
NoExtras == [query |-> 0, error |-> <<>>, message |-> ""]

\* responses the model may give to call k: query k or no query, with or without a message
Responses(k) == {[query |-> q, message |-> msg] : q \in {0, k}, msg \in {"", "msg"}}

InitGen ==
    /\ FlowIdle
    /\ RestIdle
    /\ ApiIdle
    /\ ConnIdleExcept({"gen"})
    /\ gen = [pc |-> "tap", retries_left |-> MAX_RETRIES, calls |-> <<>>, responses |-> <<>>,
              execs |-> <<>>, error |-> <<>>,
              vars |-> [user |-> "unset", success |-> FALSE, fail |-> <<"unset">>],
              view |-> 0, result |-> "running"]

\* raw = await self.client.fetch(prompt, extras); parsed = self.protocol.parse(raw)
Fetched(g, extras, r) ==
    [g EXCEPT !.calls = Append(@, extras), !.responses = Append(@, r), !.pc = "handle"]

\* the response being handled
LastResponse == gen.responses[Len(gen.responses)]

\* SQLGen.tap: render the prompt, ask the model, handle the response
GenTap ==
    /\ gen.pc = "tap"
    /\ \/ \E r \in Responses(1) : gen' = Fetched(gen, NoExtras, r)
       \/ gen' = [gen EXCEPT !.pc = "done", !.result = "FetchError"]
    /\ UNCHANGED <<flowVars, restVars, apiVars, tap, bq, ddb, rd, tmpv, ioVars>>

\* _handle_response up to the execution: the message goes to <stage>_user,
\* a response without a query is unrecoverable
HandleResponse ==
    /\ gen.pc = "handle"
    /\ IF LastResponse.query = 0
       THEN gen' = [gen EXCEPT !.vars.user = LastResponse.message, !.pc = "done",
                                !.result = "UnrecoverableTapError"]
       ELSE gen' = [gen EXCEPT !.vars.user = LastResponse.message, !.pc = "execute"]
    /\ UNCHANGED <<flowVars, restVars, apiVars, tap, bq, ddb, rd, tmpv, ioVars>>

\* the view is replaced by the query that executed
FirstQueryView(g, q) == g.responses[1].query

ViewAfter(g, q) == q

\* _sql_execute: CREATE OR REPLACE VIEW "<stage>" AS <query>, then
\* <stage>_success = True; a replayable error goes to _replay, any other
\* error leaves the tap
SqlExecute ==
    /\ gen.pc = "execute"
    /\ \/ gen' = [gen EXCEPT !.execs = Append(@, [kind |-> "ok", error |-> <<>>]),
                              !.view = ViewAfter(gen, LastResponse.query),
                              !.vars.success = TRUE, !.pc = "done", !.result = "ok"]
       \/ \E cls \in REPLAYABLE_SQL_ERRORS \cup {"IOException"}, text \in ErrorTexts :
            IF cls \in REPLAYABLE_SQL_ERRORS
            THEN gen' = [gen EXCEPT !.execs = Append(@, [kind |-> "replayable", error |-> text]),
                                     !.error = text,
                                     !.pc = "replay"]
            ELSE gen' = [gen EXCEPT !.execs = Append(@, [kind |-> "other", error |-> text]),
                                     !.error = text,
                                     !.pc = "done", !.result = cls]
    /\ UNCHANGED <<flowVars, restVars, apiVars, tap, bq, ddb, rd, tmpv, ioVars>>

\* if self._retries_left < 0 (after the decrement)
NeverExhausted(left) == FALSE

Exhausted(left) == left < 0

\* _replay: one retry less; out of retries the error text goes to
\* <stage>_fail and the tap is unrecoverable, otherwise the model is asked
\* again with the prior query, the error and the prior message
Replay ==
    /\ gen.pc = "replay"
    /\ LET left == gen.retries_left - 1
           g == [gen EXCEPT !.retries_left = left]
       IN  IF Exhausted(left)
           THEN gen' = [g EXCEPT !.vars.fail = FailMessage(gen.error), !.pc = "done",
                                  !.result = "UnrecoverableTapError"]
           ELSE /\ Len(gen.calls) < MaxCalls
                /\ \/ \E r \in Responses(Len(gen.calls) + 1) :
                        gen' = Fetched(g, Extras(LastResponse, gen.error), r)
                   \/ gen' = [g EXCEPT !.pc = "done", !.result = "FetchError"]
    /\ UNCHANGED <<flowVars, restVars, apiVars, tap, bq, ddb, rd, tmpv, ioVars>>

NextGen ==
    \/ GenTap
    \/ HandleResponse
    \/ SqlExecute
    \/ Replay

SpecGen == InitGen /\ [][NextGen]_vars

\* every step of the tap is a step of one coroutine, which the event loop
\* runs to its end
SpecGenFair == SpecGen /\ WF_vars(NextGen)

\* the stage is executed again (the next iteration of a looping pipeline, or
\* the next run over the same Variables): a new SQLGen connection is built
\* over the shared Variables and the same SQL runtime; SQLGen.init only
\* names the markers and removes nothing from self.vars
GenAgain ==
    /\ gen.pc = "done"
    /\ gen' = [pc |-> "tap", retries_left |-> MAX_RETRIES, calls |-> <<>>,
               responses |-> <<>>, execs |-> <<>>, error |-> <<>>,
               vars |-> gen.vars, view |-> gen.view,
               result |-> "running"]
    /\ UNCHANGED <<flowVars, restVars, apiVars, tap, bq, ddb, rd, tmpv, ioVars>>

NextGenAgain ==
    \/ GenTap
    \/ HandleResponse
    \/ SqlExecute
    \/ Replay
    \/ GenAgain

SpecGenAgain == InitGen /\ [][NextGenAgain]_vars

\* ---- properties of the query generation tap
\* executions that ended in a replayable error
ReplayableFailures == {i \in 1 .. Len(gen.execs) : gen.execs[i].kind = "replayable"}

\* the tap ran out of retries
RetriesExhausted == gen.result = "UnrecoverableTapError" /\ gen.retries_left < 0

\* model calls after the first one
RePrompts == Len(gen.calls) - 1

\* re-prompt k answers the failure of execution k - 1 and carries its query,
\* its error text and the message that came with the query
RePromptsCarryFailure ==
    \A k \in 2 .. Len(gen.calls) :
        /\ gen.execs[k - 1].kind = "replayable"
        /\ gen.calls[k] = Extras(gen.responses[k - 1], gen.execs[k - 1].error)

\* the counter starts at 3 and loses one per replayable failure
CounterFollowsFailures ==
    gen.retries_left =
        MAX_RETRIES - Cardinality(ReplayableFailures) + (IF gen.pc = "replay" THEN 1 ELSE 0)

GenBounded ==
    /\ RePrompts <= MAX_RETRIES
    /\ Len(gen.calls) <= MAX_RETRIES + 1
    /\ Len(gen.execs) <= MAX_RETRIES + 1
    /\ Len(gen.execs) <= Len(gen.calls)
    /\ CounterFollowsFailures
    /\ RePromptsCarryFailure

\* C13: a replayable SQL error takes one retry off the counter and causes one
\* re-prompt carrying the prior query, the error text and the prior message;
\* starting from 3 there are at most 3 re-prompts, so at most 4 model calls
\* and 4 executions, and the tap always ends
C13_AtMostThreeRePrompts ==
    /\ []GenBounded
    /\ <>(gen.pc = "done")

C13_Witness ==
    /\ gen.pc = "done"
    /\ Len(gen.calls) = 4 /\ Len(gen.execs) = 4
    /\ gen.retries_left = 0
    /\ gen.result = "ok"

\* every execution so far ended in a replayable error
AllFailed == \A i \in 1 .. Len(gen.execs) : gen.execs[i].kind = "replayable"

\* C14: when every generated query fails until the retries are used up, the
\* tap stores the failure message (the text of the last error, quotes
\* doubled, cut to 500 characters) under <stage>_fail, raises
\* UnrecoverableTapError and does not set <stage>_success
C14_ExhaustionRecordsFailure ==
    /\ (gen.pc = "done" /\ AllFailed /\ Len(gen.execs) = MAX_RETRIES + 1) =>
          /\ gen.result = "UnrecoverableTapError"
          /\ LET t == DoubleQuotes(gen.execs[Len(gen.execs)].error)
             IN  gen.vars.fail = SubSeq(t, 1, Min(Len(t), FAIL_LIMIT))
          /\ ~gen.vars.success
          /\ gen.view = 0
    /\ gen.vars.fail # <<"unset">> => RetriesExhausted
    /\ gen.vars.success => gen.result = "ok"

C14_Witness ==
    /\ gen.pc = "done"
    /\ AllFailed /\ Len(gen.execs) = 4
    /\ gen.result = "UnrecoverableTapError"
    /\ gen.vars.fail = <<"'", "'">>
    /\ ~gen.vars.success

\* C15: when the first query fails with a replayable error and the second
\* one executes, the stage succeeds: the view named after the stage is the
\* second query, <stage>_success is True and one retry has been used
C15_SecondQuerySucceeds ==
    /\ (gen.pc = "done" /\ Len(gen.execs) = 2 /\ gen.execs[1].kind = "replayable"
            /\ gen.execs[2].kind = "ok") =>
          /\ gen.result = "ok"
          /\ gen.view = gen.responses[2].query
          /\ gen.vars.success
          /\ gen.retries_left = MAX_RETRIES - 1
          /\ gen.vars.fail = <<"unset">>
    /\ gen.view # 0 => gen.view = LastResponse.query /\ gen.vars.success

C15_Witness ==
    /\ gen.pc = "done"
    /\ Len(gen.execs) = 2
    /\ gen.execs[1].kind = "replayable" /\ gen.execs[2].kind = "ok"
    /\ gen.view = 2
    /\ gen.retries_left = 2

\* C40 as stated: when a tap of the stage has ended, <stage>_success and
\* <stage>_fail are not both in Variables, and <stage>_success is there
\* exactly when this tap, the most recent one, created its view, also when
\* the stage is executed again and again over the same Variables.
C40_MarkersOfTheLastTap ==
    gen.pc = "done" =>
        /\ ~(gen.vars.success /\ gen.vars.fail # <<"unset">>)
        /\ gen.vars.success <=> gen.result = "ok"

\* ========================================================================
\* Warehouse sink (connections/bigquery.py)
\* ========================================================================
\* load jobs the environment is allowed to answer (the code sets no limit)
MaxLoads == 4
\* rows of the previous stage
MaxSinkRows == 1

\* _build_load_config_from_modes
WriteDisposition(data_mode) ==
    CASE data_mode = "append" -> "WRITE_APPEND"
      [] data_mode = "overwrite" -> "WRITE_TRUNCATE"
      [] OTHER -> "WRITE_EMPTY"

SchemaUpdateOptions(schema_mode) ==
    IF schema_mode = "merge" THEN {"ALLOW_FIELD_ADDITION"} ELSE {}

\* except gex.Conflict: the typed error, or the conflict itself
ConflictError(data_mode, options) ==
    IF data_mode = "error" THEN "DataModeConflict"
    ELSE IF options = {} THEN "SchemaModeConflict"
    ELSE "Conflict"

InitBq ==
    /\ FlowIdle
    /\ RestIdle
    /\ ApiIdle
    /\ ConnIdleExcept({"bq"})
    /\ \E dm \in {"append", "overwrite", "error", "None"}, sm \in {"merge", "None"},
          rg \in {"", "EU"}, n \in 0 .. MaxSinkRows :
         bq = [data_mode |-> dm, schema_mode |-> sm, region |-> rg, rows |-> n,
               pc |-> "sink", depth |-> 0, loads |-> <<>>, creates |-> <<>>,
               raised |-> "", result |-> NoError]

\* sink / _sink_impl up to the load: read the previous stage, skip when empty
BqSink ==
    /\ bq.pc = "sink"
    /\ IF bq.rows = 0
       THEN bq' = [bq EXCEPT !.pc = "exit", !.depth = 1]
       ELSE bq' = [bq EXCEPT !.pc = "load", !.depth = 1]
    /\ UNCHANGED <<flowVars, restVars, apiVars, tap, gen, ddb, rd, tmpv, ioVars>>

\* client.load_table_from_dataframe(...); job.result() and the except clauses
\* of _sink_impl
Load ==
    /\ bq.pc = "load"
    /\ Len(bq.loads) < MaxLoads
    /\ \E o \in {"ok", "NotFound", "Conflict", "BadRequest"} :
         LET b == [bq EXCEPT !.loads =
                     Append(@, [disposition |-> WriteDisposition(bq.data_mode),
                                options |-> SchemaUpdateOptions(bq.schema_mode),
                                outcome |-> o])]
         IN  CASE o = "ok" -> bq' = [b EXCEPT !.pc = "exit"]
               [] o = "NotFound" -> bq' = [b EXCEPT !.pc = "create"]
               [] o = "Conflict" ->
                    bq' = [b EXCEPT !.pc = "exit",
                                    !.raised = ConflictError(bq.data_mode,
                                                   SchemaUpdateOptions(bq.schema_mode))]
               [] OTHER -> bq' = [b EXCEPT !.pc = "exit", !.raised = "Exception"]
    /\ UNCHANGED <<flowVars, restVars, apiVars, tap, gen, ddb, rd, tmpv, ioVars>>

\* except gex.NotFound: self.create_dataset(), then _sink_impl again
CreateDataset ==
    /\ bq.pc = "create"
    /\ \E o \in {"created", "Conflict", "Forbidden"} :
         LET b == [bq EXCEPT !.creates = Append(@, [location |-> bq.region, outcome |-> o])]
         IN  IF o = "Forbidden"
             THEN bq' = [b EXCEPT !.pc = "exit", !.raised = "Exception"]
             ELSE bq' = [b EXCEPT !.pc = "load", !.depth = @ + 1]
    /\ UNCHANGED <<flowVars, restVars, apiVars, tap, gen, ddb, rd, tmpv, ioVars>>

\* sink: except Exception as ex: raise Exception(ex)
Wrapped(ex) == [type |-> "Exception", arg |-> ex]

\* _sink_impl returns or raises through every activation; sink() hands the
\* result to the caller
SinkExit ==
    /\ bq.pc = "exit"
    /\ bq' = [bq EXCEPT !.pc = "done", !.depth = 0,
                         !.result = IF bq.raised = "" THEN [type |-> "ok", arg |-> ""]
                                    ELSE Wrapped(bq.raised)]
    /\ UNCHANGED <<flowVars, restVars, apiVars, tap, gen, ddb, rd, tmpv, ioVars>>

NextBq ==
    \/ BqSink
    \/ Load
    \/ CreateDataset
    \/ SinkExit

SpecBq == InitBq /\ [][NextBq]_vars

\* ---- properties of the warehouse sink
\* every dataset is created in the configured region
CreatesUseRegion == \A i \in 1 .. Len(bq.creates) : bq.creates[i].location = bq.region

\* C16: a load that fails with dataset-not-found makes the sink create the
\* dataset in the configured region and retry the load exactly once: there
\* is at most one create and at most two loads, and a retry that fails with
\* not-found ends the sink with that error
C16_RetryLoadExactlyOnce ==
    /\ CreatesUseRegion
    /\ Len(bq.creates) <= 1
    /\ Len(bq.loads) <= 2
    /\ (Len(bq.loads) = 2 /\ bq.loads[2].outcome = "NotFound") => bq.pc \in {"exit", "done"}

\* C17: a load conflict makes sink() raise a typed error: DataModeConflict
\* when data_mode is error, SchemaModeConflict when no schema-update option
\* is set
C17_ConflictIsTyped ==
    (bq.pc = "done" /\ Len(bq.loads) > 0 /\ bq.loads[Len(bq.loads)].outcome = "Conflict") =>
        /\ bq.data_mode = "error" => bq.result.type = "DataModeConflict"
        /\ (bq.data_mode # "error" /\ bq.schema_mode # "merge") =>
               bq.result.type = "SchemaModeConflict"

\* what _sink_impl itself raises on a conflict is typed
SinkImplConflictIsTyped ==
    (bq.pc = "done" /\ Len(bq.loads) > 0 /\ bq.loads[Len(bq.loads)].outcome = "Conflict") =>
        /\ bq.result.type = "Exception"
        /\ bq.data_mode = "error" => bq.result.arg = "DataModeConflict"
        /\ (bq.data_mode # "error" /\ bq.schema_mode # "merge") =>
               bq.result.arg = "SchemaModeConflict"

\* ========================================================================
\* SQL runtime adapter (internal/server.py, internal/browser.py)
\* ========================================================================
MaxInjects == 4
MaxReads == 3
\* rows of one input handed to read_json / read_csv / read_parquet
MaxInput == 2
\* distinct credentials
MaxKey == 2

Platforms == {"server", "browser"}
SecretNames == {"src", "snk"}
Buckets == {"gs://lake", "s3://lake"}

\* a BucketConfig: no bucket, or a bucket with its credentials
BucketConfigs(b) ==
    {[bucket |-> "", key |-> 0]} \cup {[bucket |-> b, key |-> k] : k \in 1 .. MaxKey}

\* the part of a ConnectionConfiguration that inject_secrets reads
ConnectionConfigurations ==
    {[gs |-> g, s3 |-> s3c] : g \in BucketConfigs("gs://lake"),
                              s3c \in BucketConfigs("s3://lake")}

InitDdb ==
    /\ FlowIdle
    /\ RestIdle
    /\ ApiIdle
    /\ ConnIdleExcept({"ddb"})
    /\ \E pf \in Platforms :
         ddb = [platform |-> pf, secrets |-> {}, latest |-> [b \in Buckets |-> 0],
                injects |-> 0]

InitRead ==
    /\ FlowIdle
    /\ RestIdle
    /\ ApiIdle
    /\ ConnIdleExcept({"rd"})
    /\ \E pf \in Platforms :
         rd = [platform |-> pf, table |-> NoStageTable, reads |-> <<>>]

\* CREATE SECRET IF NOT EXISTS "<name>" (TYPE ..., KEY_ID ..., SCOPE '<bucket>')
CreateSecretIfNotExists(secrets, name, type, c) ==
    IF \E x \in secrets : x.name = name
    THEN secrets
    ELSE secrets \cup {[name |-> name, type |-> type, key |-> c.key, scope |-> c.bucket]}

\* server DDB.inject_secrets: a secret named after the stage for the GS
\* bucket, then one of the same name for the S3 bucket
ServerSecrets(secrets, name, config) ==
    LET afterGs == IF config.gs.bucket # ""
                   THEN CreateSecretIfNotExists(secrets, name, "GCS", config.gs)
                   ELSE secrets
    IN  IF config.s3.bucket # ""
        THEN CreateSecretIfNotExists(afterGs, name, "S3", config.s3)
        ELSE afterGs

\* browser DDB._init_secrets: self.secrets[cfg.bucket] = cfg
BrowserSecrets(secrets, config) ==
    LET set(sec, c) == IF c.bucket # ""
                       THEN {x \in sec : x.scope # c.bucket}
                                \cup {[name |-> c.bucket, type |-> "BucketConfig",
                                       key |-> c.key, scope |-> c.bucket]}
                       ELSE sec
    IN  set(set(secrets, config.gs), config.s3)

\* the credentials of the most recent call, per bucket
Latest(latest, config) ==
    [b \in Buckets |->
        IF config.gs.bucket = b THEN config.gs.key
        ELSE IF config.s3.bucket = b THEN config.s3.key
        ELSE latest[b]]

ServerInject ==
    /\ ddb.platform = "server"
    /\ ddb.injects < MaxInjects
    /\ \E name \in SecretNames, config \in ConnectionConfigurations :
         ddb' = [ddb EXCEPT !.secrets = ServerSecrets(@, name, config),
                            !.latest = Latest(@, config),
                            !.injects = @ + 1]
    /\ UNCHANGED <<flowVars, restVars, apiVars, tap, gen, bq, rd, tmpv, ioVars>>

BrowserInject ==
    /\ ddb.platform = "browser"
    /\ ddb.injects < MaxInjects
    /\ \E name \in SecretNames, config \in ConnectionConfigurations :
         ddb' = [ddb EXCEPT !.secrets = BrowserSecrets(@, config),
                            !.latest = Latest(@, config),
                            !.injects = @ + 1]
    /\ UNCHANGED <<flowVars, restVars, apiVars, tap, gen, bq, rd, tmpv, ioVars>>

\* INSERT INTO <table> FROM tbl
OverwriteWith(table, rows) == [exists |-> TRUE, rows |-> rows]

InsertInto(table, rows) == [exists |-> TRUE, rows |-> table.rows + rows]

\* one read_* call as it ended
ReadCall(rows, existed, cwn, how) ==
    [rows |-> rows, existed |-> existed, create_when_needed |-> cwn, how |-> how]

\* server DDB.read_json / read_csv / read_parquet: insert, or on
\* CatalogException create when allowed and raise otherwise; an input the
\* engine cannot read or insert raises and changes nothing
ServerRead ==
    /\ rd.platform = "server"
    /\ Len(rd.reads) < MaxReads
    /\ \E rows \in 0 .. MaxInput, cwn \in BOOLEAN :
         \/ rd' = [rd EXCEPT !.reads = Append(@, ReadCall(rows, rd.table.exists, cwn, "error"))]
         \/ IF rd.table.exists
            THEN rd' = [rd EXCEPT !.table = InsertInto(@, rows),
                                    !.reads = Append(@, ReadCall(rows, TRUE, cwn, "insert"))]
            ELSE IF cwn
            THEN rd' = [rd EXCEPT !.table = [exists |-> TRUE, rows |-> rows],
                                    !.reads = Append(@, ReadCall(rows, FALSE, cwn, "create"))]
            ELSE rd' = [rd EXCEPT !.reads =
                             Append(@, ReadCall(rows, FALSE, cwn, "CatalogException"))]
    /\ UNCHANGED <<flowVars, restVars, apiVars, tap, gen, bq, ddb, tmpv, ioVars>>

\* browser DDB.read_json / read_csv / read_parquet: insert, or create on
\* CatalogException; there is no create_when_needed parameter
BrowserRead ==
    /\ rd.platform = "browser"
    /\ Len(rd.reads) < MaxReads
    /\ \E rows \in 0 .. MaxInput :
         \/ rd' = [rd EXCEPT !.reads = Append(@, ReadCall(rows, rd.table.exists, TRUE, "error"))]
         \/ IF rd.table.exists
            THEN rd' = [rd EXCEPT !.table = InsertInto(@, rows),
                                    !.reads = Append(@, ReadCall(rows, TRUE, TRUE, "insert"))]
            ELSE rd' = [rd EXCEPT !.table = [exists |-> TRUE, rows |-> rows],
                                    !.reads = Append(@, ReadCall(rows, FALSE, TRUE, "create"))]
    /\ UNCHANGED <<flowVars, restVars, apiVars, tap, gen, bq, ddb, tmpv, ioVars>>

NextDdb ==
    \/ ServerInject
    \/ BrowserInject

SpecDdb == InitDdb /\ [][NextDdb]_vars

NextRead ==
    \/ ServerRead
    \/ BrowserRead

SpecRead == InitRead /\ [][NextRead]_vars

\* ---- properties of the SQL runtime adapter
\* the credentials the runtime holds for a bucket
InForce(b) == {x.key : x \in {y \in ddb.secrets : y.scope = b}}

\* C18: inject_secrets is an idempotent upsert keyed by bucket scope: after
\* any sequence of calls the credentials in force for a bucket are those of
\* the most recent call that named the bucket, so secrets of different
\* buckets co-exist and a repeated call changes nothing
C18_LatestSecretPerBucket ==
    \A b \in Buckets :
        IF ddb.latest[b] = 0 THEN InForce(b) = {} ELSE InForce(b) = {ddb.latest[b]}

\* the browser adapter keeps its secrets in a dict keyed by bucket
BrowserSecretsUpsert ==
    ddb.platform = "browser" => C18_LatestSecretPerBucket

\* rows of the inputs of the calls that did not raise
RECURSIVE RowsRead(_)
RowsRead(reads) ==
    IF reads = <<>> THEN 0
    ELSE (IF reads[1].how \in {"create", "insert"} THEN reads[1].rows ELSE 0)
             + RowsRead(Tail(reads))

\* calls that loaded their input
Loads == {i \in 1 .. Len(rd.reads) : rd.reads[i].how \in {"create", "insert"}}

MaxOps == 3

\* stages whose name goes into tmp_<name> and schema_<name>
TempStages == {"a", "b"}

InitTmp ==
    /\ FlowIdle
    /\ RestIdle
    /\ ApiIdle
    /\ ConnIdleExcept({"tmpv"})
    /\ tmpv = [views |-> {}, op |-> "", raised |-> FALSE, ops |-> 0]

\* try: register(view, df); <body>  finally: unregister(view)
\* the failure, if any, is in the register or in the body
Scoped(op, view) ==
    /\ tmpv.ops < MaxOps
    /\ \E fail \in {"none", "register", "body"} :
         LET registered == IF fail = "register" THEN tmpv.views ELSE tmpv.views \cup {view}
         IN  tmpv' = [views |-> registered \ {view}, op |-> op, raised |-> fail # "none",
                      ops |-> tmpv.ops + 1]
    /\ UNCHANGED <<flowVars, restVars, apiVars, tap, gen, bq, ddb, rd, ioVars>>

\* Clickhouse._create_or_insert_df: chdf_chunk
ChunkFlush == Scoped("Clickhouse._create_or_insert_df", <<"chdf_chunk", "">>)

\* Clickhouse.show_schema: ch_preview
ClickhousePreview == Scoped("Clickhouse.show_schema", <<"ch_preview", "">>)

\* BigQuery.tap: bigdf
BigQueryTap == Scoped("BigQuery.tap", <<"bigdf", "">>)

\* File.tap: filedf
FileTap == Scoped("File.tap", <<"filedf", "">>)

\* Deltatable.sink: the view tmp_<from_name> is created, counted, read and
\* then dropped, in a straight line: a failing count or read leaves it
DeltaSink ==
    /\ tmpv.ops < MaxOps
    /\ \E n \in TempStages, fail \in {"none", "create", "count", "read", "write"} :
         LET view == <<"tmp_", n>>
             created == IF fail = "create" THEN tmpv.views ELSE tmpv.views \cup {view}
         IN  tmpv' = [views |-> IF fail \in {"count", "read"} THEN created
                                ELSE created \ {view},
                      op |-> "Deltatable.sink", raised |-> fail # "none",
                      ops |-> tmpv.ops + 1]
    /\ UNCHANGED <<flowVars, restVars, apiVars, tap, gen, bq, ddb, rd, ioVars>>

\* Parquet.show_schema: when the stage table is not there, the table
\* schema_<name> is created from the files and shown; nothing drops it
ParquetShowSchema ==
    /\ tmpv.ops < MaxOps
    /\ \E n \in TempStages, path \in {"stage", "files", "create fails"} :
         tmpv' = [views |-> IF path = "files" THEN tmpv.views \cup {<<"schema_", n>>}
                            ELSE tmpv.views,
                  op |-> "Parquet.show_schema", raised |-> FALSE, ops |-> tmpv.ops + 1]
    /\ UNCHANGED <<flowVars, restVars, apiVars, tap, gen, bq, ddb, rd, ioVars>>

NextTmp ==
    \/ ChunkFlush
    \/ ClickhousePreview
    \/ BigQueryTap
    \/ FileTap
    \/ DeltaSink
    \/ ParquetShowSchema

SpecTmp == InitTmp /\ [][NextTmp]_vars

\* ---- properties of the temporary objects
\* C20: every temporary view or table made for a conversion is dropped or
\* unregistered on every exit path of the operation that made it: between
\* operations none of them exists
C20_NoTemporaryLeftBehind ==
    tmpv.views = {}

\* the dataframe views registered under try / finally are always unregistered
ScopedViewsGone ==
    \A v \in tmpv.views : v[1] \in {"tmp_", "schema_"}

\* ========================================================================
\* Clients of the connectors: with_clickhouse, Clickhouse.sink, RestApi.fetch
\* (connections/clickhouse.py, connections/rest/rest.py)
\* ========================================================================
\* calls made on one Clickhouse connection, and fetches of one RestApi
MaxClientCalls == 2
\* rows of the previous stage a sink pushes
MaxPrevRows == 3
DEFAULT_STREAM_BLOCK == 50000

\* Clickhouse.init: self._blocksize = self.cfg.clickhouse.blocksize or DEFAULT_STREAM_BLOCK;
\* the configuration takes any int, a negative one too
Blocksize(configured) == IF configured = 0 THEN DEFAULT_STREAM_BLOCK ELSE configured

InitClients ==
    /\ \E b \in (-1)..MaxBlock :
          ch = [pc |-> "idle", blocksize |-> b, _blocksize |-> Blocksize(b), op |-> "",
                rows |-> 0, left |-> 0, ch |-> FALSE, opened |-> 0, closed |-> 0,
                inserts |-> <<>>, result |-> "", calls |-> 0]
    /\ \E platform \in {"server", "browser"} :
          ra = [pc |-> "idle", platform |-> platform, client |-> "none", connects |-> 0,
                closes |-> 0, result |-> "", calls |-> 0]
    /\ FlowIdle
    /\ RestIdle
    /\ ApiIdle
    /\ ConnIdleExcept({"ch", "ra"})

\* tap, sql and show_schema are called: the decorator runs first
Call ==
    /\ ch.pc = "idle" /\ ch.calls < MaxClientCalls
    /\ \E op \in {"tap", "sql", "show_schema"} :
          ch' = [ch EXCEPT !.pc = "wrapper", !.op = op, !.inserts = <<>>, !.result = ""]
    /\ UNCHANGED <<flowVars, restVars, apiVars, storeVars, ra, dsink, loc>>

\* Clickhouse.sink: the strategy is picked from self._blocksize
Sink ==
    /\ ch.pc = "idle" /\ ch.calls < MaxClientCalls
    /\ \E rows \in 0..MaxPrevRows :
          ch' = [ch EXCEPT !.pc = "wrapper",
                           !.op = IF ch._blocksize > 0 THEN "_sink_streaming"
                                                       ELSE "_sink_direct",
                           !.rows = rows, !.left = rows, !.inserts = <<>>, !.result = ""]
    /\ UNCHANGED <<flowVars, restVars, apiVars, storeVars, ra, dsink, loc>>

\* with_clickhouse, entry: a client is connected and exposed as self.ch
WithClickhouseEnter ==
    /\ ch.pc = "wrapper"
    /\ ch' = [ch EXCEPT !.pc = "body", !.ch = TRUE, !.opened = @ + 1]
    /\ UNCHANGED <<flowVars, restVars, apiVars, storeVars, ra, dsink, loc>>

\* the body of tap, sql or show_schema returns or raises
Body ==
    /\ ch.pc = "body" /\ ch.op \in {"tap", "sql", "show_schema"}
    /\ \E result \in {"returned", "raised"} :
          ch' = [ch EXCEPT !.pc = "finally", !.result = result]
    /\ UNCHANGED <<flowVars, restVars, apiVars, storeVars, ra, dsink, loc>>

\* _sink_direct: one INSERT ... VALUES with the whole previous stage as a dataframe
SinkDirect ==
    /\ ch.pc = "body" /\ ch.op = "_sink_direct"
    /\ \E result \in {"returned", "raised"} :
          ch' = [ch EXCEPT !.pc = "finally", !.result = result, !.left = 0,
                           !.inserts = IF result = "returned"
                                       THEN Append(@, [by |-> "dataframe", rows |-> ch.rows])
                                       ELSE @]
    /\ UNCHANGED <<flowVars, restVars, apiVars, storeVars, ra, dsink, loc>>

\* _sink_streaming: one columnar insert per Arrow batch of batch_size rows
SinkStreaming ==
    /\ ch.pc = "body" /\ ch.op = "_sink_streaming"
    /\ IF ch.left = 0
       THEN ch' = [ch EXCEPT !.pc = "finally", !.result = "returned"]
       ELSE LET batch == Min(ch.left, ch._blocksize)
            IN  \E ok \in BOOLEAN :
                  ch' = IF ok
                        THEN [ch EXCEPT !.left = @ - batch,
                                        !.inserts = Append(@, [by |-> "columnar",
                                                               rows |-> batch])]
                        ELSE [ch EXCEPT !.pc = "finally", !.result = "raised"]
    /\ UNCHANGED <<flowVars, restVars, apiVars, storeVars, ra, dsink, loc>>

\* variant: the client is disconnected only when the body returned
DisconnectOnReturn(closed, result) == IF result = "returned" THEN closed + 1 ELSE closed

\* ClickhouseClient.connect: try: yield client / finally: client.disconnect()
Disconnect(closed, result) == closed + 1

\* with_clickhouse, exit: finally self.ch = None, then the context manager ends
WithClickhouseExit ==
    /\ ch.pc = "finally"
    /\ ch' = [ch EXCEPT !.pc = "idle", !.ch = FALSE, !.calls = @ + 1,
                        !.closed = Disconnect(@, ch.result)]
    /\ UNCHANGED <<flowVars, restVars, apiVars, storeVars, ra, dsink, loc>>

\* RestApi.fetch up to the try: create_client makes the first client and
\* reconnects one that is closed (the browser client reports closed always)
CreateClient ==
    /\ ra.pc = "idle" /\ ra.calls < MaxClientCalls
    /\ ra' = [ra EXCEPT !.pc = "try", !.result = "",
                        !.client = IF ra.platform = "server" THEN "open" ELSE "stub",
                        !.connects = IF ra.client = "open" THEN @ ELSE @ + 1]
    /\ UNCHANGED <<flowVars, restVars, apiVars, storeVars, ch, dsink, loc>>

\* try: self._client.fetch and handle_response return or raise
FetchBody ==
    /\ ra.pc = "try"
    /\ \E result \in {"returned", "raised"} :
          ra' = [ra EXCEPT !.pc = "finally", !.result = result]
    /\ UNCHANGED <<flowVars, restVars, apiVars, storeVars, ch, dsink, loc>>

\* finally: self._client.disconnect() closes the httpx client; a no-op in the browser
FetchFinally ==
    /\ ra.pc = "finally"
    /\ ra' = [ra EXCEPT !.pc = "idle", !.calls = @ + 1,
                        !.client = IF ra.platform = "server" THEN "closed" ELSE @,
                        !.closes = @ + 1]
    /\ UNCHANGED <<flowVars, restVars, apiVars, storeVars, ch, dsink, loc>>

NextClients ==
    \/ Call
    \/ Sink
    \/ WithClickhouseEnter
    \/ Body
    \/ SinkDirect
    \/ SinkStreaming
    \/ WithClickhouseExit
    \/ CreateClient
    \/ FetchBody
    \/ FetchFinally

SpecClients == InitClients /\ [][NextClients]_vars

\* ---- properties of the clients
\* C21: every connector operation releases its client on every exit path:
\* once a wrapped tap, sink, sql or show_schema has returned or raised, every
\* client the wrapper connected is disconnected and self.ch is cleared, and
\* once RestApi.fetch has returned or raised its HTTP client is not open.
C21_ClientReleasedOnEveryExit ==
    /\ ch.pc = "idle" => (ch.closed = ch.opened /\ ~ch.ch)
    /\ ch.pc # "idle" => ch.opened - ch.closed <= 1
    /\ ra.pc = "idle" => (ra.client # "open" /\ ra.closes = ra.calls)

\* a sink and a fetch both raised, and both clients were released
C21_Witness ==
    /\ ch.pc = "idle" /\ ch.result = "raised" /\ ch.op = "_sink_streaming"
    /\ ch.opened = MaxClientCalls /\ ch.closed = MaxClientCalls
    /\ ra.pc = "idle" /\ ra.result = "raised" /\ ra.platform = "server"
    /\ ra.client = "closed"

\* C25 as stated: the sink picks its strategy from the configured blocksize:
\* with blocksize 0 a sink that returned made one INSERT of the whole
\* previous stage as a dataframe; with blocksize > 0 it made one columnar
\* insert per batch of at most blocksize rows, all rows in total.
C25_StrategyFromBlocksize ==
    (ch.pc = "idle" /\ ch.result = "returned" /\ ch.op \in {"_sink_direct", "_sink_streaming"})
    => IF ch.blocksize = 0
       THEN ch.inserts = <<[by |-> "dataframe", rows |-> ch.rows]>>
       ELSE ch.blocksize > 0 =>
               /\ \A i \in 1..Len(ch.inserts) :
                     /\ ch.inserts[i].by = "columnar"
                     /\ ch.inserts[i].rows <= ch.blocksize
               /\ ch.rows = 0 => ch.inserts = <<>>
               /\ ch.rows > 0 => Len(ch.inserts) = Ceil(ch.rows, ch.blocksize)

\* a configured blocksize above 0 does select the streaming strategy
PositiveBlocksizeStreams ==
    ch.blocksize # 0 => C25_StrategyFromBlocksize

\* ========================================================================
\* Table-format sink: Deltatable.sink and its strategy (connections/delta.py)
\* ========================================================================
\* sink calls on one connection, and rows in the view of the previous stage
MaxDeltaSinks == 2
MaxDeltaRows == 3

\* conn.fields: not declared, declared empty, or a list of columns
FieldsValues == {"none", "empty", "columns"}

InitDelta ==
    /\ \E fields \in FieldsValues, is_delta \in BOOLEAN :
          dsink = [pc |-> "idle", fields |-> fields, is_delta |-> is_delta, rows |-> 0,
                   strategy |-> "", created |-> 0, written |-> <<>>, result |-> "",
                   calls |-> 0]
    /\ FlowIdle
    /\ RestIdle
    /\ ApiIdle
    /\ ConnIdleExcept({"dsink"})

\* variant: a declared schema always asks for CREATE
CreateWhenFields(fields, rows) ==
    IF fields = "columns" THEN "CREATE" ELSE IF rows = 0 THEN "SKIP" ELSE "WRITE"

\* Deltatable._create_strategy: has_schema = bool(self.conn.fields)
CreateStrategy(fields, rows) ==
    LET has_schema == fields = "columns"
    IN  IF ~has_schema /\ rows = 0 THEN "SKIP"
        ELSE IF has_schema /\ rows = 0 THEN "CREATE"
        ELSE "WRITE"

\* sink up to the strategy: the view is counted and read; SKIP returns
DeltaCount ==
    /\ dsink.pc = "idle" /\ dsink.calls < MaxDeltaSinks
    /\ \E rows \in 0..MaxDeltaRows :
          LET strategy == CreateStrategy(dsink.fields, rows)
          IN  dsink' = [dsink EXCEPT !.rows = rows, !.strategy = strategy,
                                     !.created = 0, !.written = <<>>,
                                     !.pc = IF strategy = "SKIP" THEN "idle" ELSE "write",
                                     !.result = IF strategy = "SKIP" THEN "returned" ELSE "",
                                     !.calls = IF strategy = "SKIP" THEN @ + 1 ELSE @]
    /\ UNCHANGED <<flowVars, restVars, apiVars, storeVars, ch, ra, loc>>

\* sink after the strategy: CREATE makes the table from the declared fields
\* when there is none, WRITE writes the rows and creates the table when
\* there is none; either may raise
DeltaWrite ==
    /\ dsink.pc = "write"
    /\ \E ok \in BOOLEAN :
          IF ~ok
          THEN dsink' = [dsink EXCEPT !.pc = "idle", !.result = "raised", !.calls = @ + 1]
          ELSE dsink' = [dsink EXCEPT
                  !.pc = "idle", !.result = "returned", !.calls = @ + 1,
                  !.created = IF dsink.strategy = "CREATE" /\ ~dsink.is_delta
                                 /\ dsink.fields = "columns"
                              THEN @ + 1 ELSE @,
                  !.written = IF dsink.strategy = "WRITE" \/ dsink.rows > 0
                              THEN Append(@, dsink.rows) ELSE @,
                  !.is_delta = \/ dsink.is_delta
                               \/ dsink.strategy = "WRITE"
                               \/ dsink.fields = "columns"]
    /\ UNCHANGED <<flowVars, restVars, apiVars, storeVars, ch, ra, loc>>

NextDelta ==
    \/ DeltaCount
    \/ DeltaWrite

SpecDelta == InitDelta /\ [][NextDelta]_vars

MaxName == 3

RemoteRoot == <<"s3://b">>
Names == (UNION {[1..n -> {"/", "a"}] : n \in 1..MaxName}) \cup {RemoteRoot \o <<"/", "a">>}
\* bucket: not configured, remote, local absolute, local relative
RootBuckets == {<<>>, RemoteRoot, <<"/", "r">>, <<"r">>}
Prefixes == {<<>>, <<"p">>, <<"/", "p">>, <<"..">>}

\* PathFactory.make: a string with a remote scheme is a RemotePath
IsRemote(s) == s # <<>> /\ s[1] = "s3://b"

\* CommonPath.is_absolute / pathlib: rooted, or remote
IsAbsolute(s) == s # <<>> /\ (s[1] = "/" \/ IsRemote(s))

\* str.lstrip("/")
RECURSIVE LStrip(_)
LStrip(s) == IF s # <<>> /\ s[1] = "/" THEN LStrip(Tail(s)) ELSE s

\* parts of a relative LocalPath: the segments between slashes; pathlib
\* drops the empty ones
RECURSIVE PartsFrom(_, _)
PartsFrom(s, cur) ==
    IF s = <<>> THEN (IF cur = <<>> THEN <<>> ELSE <<cur>>)
    ELSE IF s[1] = "/"
         THEN (IF cur = <<>> THEN <<>> ELSE <<cur>>) \o PartsFrom(Tail(s), <<>>)
         ELSE PartsFrom(Tail(s), Append(cur, s[1]))

Parts(s) == PartsFrom(s, <<>>)

\* joinpath(*parts) of a RemotePath (os.path.join on the key) or a LocalPath
RECURSIVE JoinPath(_, _)
JoinPath(root, parts) ==
    IF parts = <<>> THEN root
    ELSE JoinPath(root \o <<"/">> \o parts[1], Tail(parts))

\* variant: an absolute name is put under the data_prefix as well
UnderPrefix(root, prefix, name) ==
    JoinPath(JoinPath(root, Parts(LStrip(prefix))), Parts(LStrip(name)))

\* an absolute name goes directly under root
UnderRoot(root, prefix, name) == JoinPath(root, Parts(LStrip(name)))

\* Locator.locate(name) without wildcard: the path returned or the ValueError raised
Locate(bucket, prefix, name) ==
    IF IsRemote(name) THEN [path |-> name, raised |-> ""]
    ELSE IF bucket = <<>> THEN [path |-> <<>>, raised |-> "Root not specified"]
    ELSE IF ~IsAbsolute(bucket) THEN [path |-> <<>>, raised |-> "Root must be absolute"]
    ELSE IF IsAbsolute(name) THEN [path |-> UnderRoot(bucket, prefix, name), raised |-> ""]
    ELSE LET prefix_str == LStrip(prefix)
         IN  IF \E i \in 1..Len(Parts(prefix_str)) : Parts(prefix_str)[i] = <<"..">>
             THEN [path |-> <<>>, raised |-> "data_prefix cannot contain '..' segments"]
             ELSE [path |-> JoinPath(JoinPath(bucket, Parts(prefix_str)), Parts(name)),
                   raised |-> ""]

InitLocate ==
    /\ \E bucket \in RootBuckets, prefix \in Prefixes, name \in Names :
          loc = [pc |-> "call", bucket |-> bucket, prefix |-> prefix, name |-> name,
                 path |-> <<>>, raised |-> ""]
    /\ FlowIdle
    /\ RestIdle
    /\ ApiIdle
    /\ ConnIdleExcept({"loc"})

LocatorLocate ==
    /\ loc.pc = "call"
    /\ LET r == Locate(loc.bucket, loc.prefix, loc.name)
       IN  loc' = [loc EXCEPT !.pc = "done", !.path = r.path, !.raised = r.raised]
    /\ UNCHANGED <<flowVars, restVars, apiVars, storeVars, ch, ra, dsink>>

NextLocate == LocatorLocate

SpecLocate == InitLocate /\ [][NextLocate]_vars

\* ---- properties of the locator
\* the call was made with a name that starts with "/" and a bucket that is
\* configured and absolute
LocatedAbsolute ==
    /\ loc.pc = "done"
    /\ loc.name[1] = "/"
    /\ loc.bucket # <<>> /\ IsAbsolute(loc.bucket)

\* the name has one leading "/" and nothing after it that a path drops: no
\* empty segment and no trailing "/"
PlainAbsolute(name) ==
    /\ Len(name) >= 2
    /\ name[Len(name)] # "/"
    /\ \A i \in 1..(Len(name) - 1) : ~(name[i] = "/" /\ name[i + 1] = "/")

====
